---- MODULE Spec2Model ----
(***************************************************************************)
(* A model of irwm.c, the panel-based window manager: the panel registry,  *)
(* the three list windows, the command loop and the X events of the main   *)
(* loop, together with the part of the X server the program talks to (the  *)
(* life and map state of the content windows, the event queue, the errors  *)
(* of requests on destroyed windows).                                      *)
(*                                                                         *)
(* Every C function is an operator from a state record to a state record;  *)
(* the actions build the record from the variables, apply the handler and  *)
(* store the result.                                                       *)
(***************************************************************************)
EXTENDS Integers, Sequences, FiniteSets, TLC

VARIABLES
    panel,            \* struct panel panel[]: the entries 0..numpanels-1
    numpanels,        \* int numpanels
    numactive,        \* int numactive
    activepanel,      \* int activepanel, -1 if none
    activecontent,    \* Window activecontent
    override,         \* override[]: the entries 0..numoverride-1
    numoverride,      \* int numoverride
    overridefix,      \* Bool overridefix
    clientlist,       \* _NET_CLIENT_LIST as last published on the root
    unmaponleave,     \* option -u / -r
    singlekey,        \* option -s
    confirmquit,      \* option -c
    quitonlastclose,  \* option -q
    programs,         \* programs[]: the entries 0..numprograms-1
    showpanel,        \* Bool showpanel
    showprogs,        \* Bool showprogs
    showconfirm,      \* Bool showconfirm
    progselected,     \* int progselected
    confirmselected,  \* int confirmselected
    run,              \* Bool run
    restart,          \* Bool restart
    alive,            \* X server: content windows that exist
    mapped,           \* X server: content windows that are mapped
    pmapped,          \* X server: contents whose panel window is mapped
    geometry,         \* X server: the attributes of the other windows
    focus,            \* X server: the input focus
    grabbed,          \* X server: keyboard grabbed by irwm
    queue,            \* the events XNextEvent is still to return
    xerrors,          \* the X errors the handler has put back in the queue
    out,              \* the requests and forks of the last step, in order
    abnormal,         \* "no", or how the process left its normal course
    display,          \* "open", or "closed" after XCloseDisplay
    born,             \* client side: windows that have been created
    budget,           \* commands that may still be given, or Unlimited
    last              \* the event or command handled by the last step

vars == <<panel, numpanels, numactive, activepanel, activecontent, clientlist,
          override, numoverride, overridefix, geometry,
          unmaponleave, singlekey, confirmquit, quitonlastclose, programs,
          showpanel, showprogs, showconfirm, progselected, confirmselected,
          run, restart, alive, mapped, pmapped, focus, grabbed, queue,
          xerrors, out, abnormal, display, born, budget, last>>

(***************************************************************************)
(* bounds of the model                                                     *)
(***************************************************************************)
MaxWin == 2          \* content windows of the asynchronous specification
MaxQueue == 2        \* a client waits when this many events are pending
MaxCommands == 3     \* commands of a behaviour of the list specification
MaxListPanels == 4   \* panels of the registries of the list specification
MaxNum == 5          \* largest n of NUMWINDOW(n)
MaxOverride == 2     \* windows of the override specification
MaxKeys == 5         \* keys and messages of a behaviour of the key specification
MaxName == 11        \* largest n of the names NUMWINDOW(n) of the lirc client
MaxRand == 2         \* largest result of rand()
MaxMargin == 2       \* largest free margin, of either sign, of randombetween
RootSize == 2        \* width and height of the root window

(***************************************************************************)
(* constants of the program                                                *)
(***************************************************************************)
None == 0
Root == 20000
NULL == "NULL"

NOCOMMAND == 0
NEXTPANEL == 1
PREVPANEL == 2
RESTART == 3
QUIT == 4
LOGLIST == 5
POSITIONFIX == 6
RESIZE == 7
PANELWINDOW == 10
PROGSWINDOW == 11
CONFIRMWINDOW == 12
UPWINDOW == 20
DOWNWINDOW == 21
HIDEWINDOW == 22
OKWINDOW == 23
KOWINDOW == 24
ENDWINDOW == 25
NUMWINDOW(n) == 100 + n

MAXPANELS == 1000
MAXOVERRIDE == 1000
UNMOVED == -10000

\* the program list when no configuration file is found
DefaultPrograms == << [title |-> "xterm", program |-> "/usr/bin/xterm"],
                      [title |-> "quit",  program |-> NULL] >>
numprograms == Len(programs)

\* the index at which a for loop over 0, 1, 2... that returns at the indices
\* in I returns, -1 if it returns at none
first(I) == IF I = {} THEN -1 ELSE CHOOSE i \in I : \A j \in I : i <= j

\* the remainder of C: the sign of the result is the sign of the dividend
CMod(a, b) == IF a >= 0 THEN a % b ELSE 0 - ((0 - a) % b)

\* MODULEINCREASE(n, mod, rel)
MODULEINCREASE(n, mod, rel) == CMod(n + mod + rel, mod)

(***************************************************************************)
(* the windows                                                             *)
(***************************************************************************)
Windows == 1 .. MaxWin

\* the panel window XCreateSimpleWindow makes for a content
PanelOf(c) == 10000 + c

\* the windows of the registries of the list and event specifications
ListWindows == 1 .. MaxListPanels

\* WM_TRANSIENT_FOR of the content windows: windows 2 and 4 are dialogs of
\* window 1
TransientFor(w) == IF w \in {2, 4} THEN 1 ELSE None

\* the clients whose WM_PROTOCOLS contains WM_DELETE_WINDOW
HasDeleteWindow(w) == w # 3

St == [panel |-> panel, numpanels |-> numpanels, numactive |-> numactive,
       activepanel |-> activepanel, activecontent |-> activecontent,
       clientlist |-> clientlist,
       override |-> override, numoverride |-> numoverride,
       overridefix |-> overridefix, geometry |-> geometry,
       showpanel |-> showpanel, showprogs |-> showprogs,
       showconfirm |-> showconfirm, progselected |-> progselected,
       confirmselected |-> confirmselected, run |-> run,
       restart |-> restart, alive |-> alive, mapped |-> mapped,
       pmapped |-> pmapped, focus |-> focus, grabbed |-> grabbed,
       queue |-> queue, xerrors |-> xerrors, out |-> << >>,
       abnormal |-> abnormal, display |-> display]

Store(s) ==
    /\ panel' = s.panel
    /\ numpanels' = s.numpanels
    /\ numactive' = s.numactive
    /\ activepanel' = s.activepanel
    /\ activecontent' = s.activecontent
    /\ clientlist' = s.clientlist
    /\ override' = s.override
    /\ numoverride' = s.numoverride
    /\ overridefix' = s.overridefix
    /\ geometry' = s.geometry
    /\ showpanel' = s.showpanel
    /\ showprogs' = s.showprogs
    /\ showconfirm' = s.showconfirm
    /\ progselected' = s.progselected
    /\ confirmselected' = s.confirmselected
    /\ run' = s.run
    /\ restart' = s.restart
    /\ alive' = s.alive
    /\ mapped' = s.mapped
    /\ pmapped' = s.pmapped
    /\ focus' = s.focus
    /\ grabbed' = s.grabbed
    /\ queue' = s.queue
    /\ xerrors' = s.xerrors
    /\ out' = s.out
    /\ abnormal' = s.abnormal
    /\ display' = s.display

(***************************************************************************)
(* the X server: requests on content and panel windows                     *)
(***************************************************************************)
Event(t, w, se) == [type |-> t, window |-> w, send_event |-> se]

\* the requests that irwm sends and the programs it forks
Log(s, req, w) == [s EXCEPT !.out = Append(@, <<req, w>>)]

\* a request on a window that no longer exists: the error handler puts the
\* error in the event queue
XRequest(s, w, req) ==
    IF w \in s.alive THEN Log(s, req, w)
    ELSE [Log(s, req, w) EXCEPT
              !.xerrors = Append(@, [error_code |-> "BadWindow",
                                     request_code |-> req])]

\* XMapWindow on a content: MapNotify goes to irwm, which selects
\* SubstructureNotify on the panel
XMapContent(s, w) ==
    IF w \notin s.alive THEN XRequest(s, w, "X_MapWindow")
    ELSE IF w \in s.mapped THEN Log(s, "X_MapWindow", w)
    ELSE [Log(s, "X_MapWindow", w) EXCEPT
              !.mapped = @ \cup {w},
              !.queue = Append(@, Event("MapNotify", w, FALSE))]

XUnmapContent(s, w) ==
    IF w \notin s.alive THEN XRequest(s, w, "X_UnmapWindow")
    ELSE IF w \notin s.mapped THEN Log(s, "X_UnmapWindow", w)
    ELSE [Log(s, "X_UnmapWindow", w) EXCEPT
              !.mapped = @ \ {w},
              !.queue = Append(@, Event("UnmapNotify", w, FALSE))]

\* the panel windows are irwm's own; their notify events find no content in
\* the registry and are not queued
XMapPanel(s, c) ==
    [Log(s, "X_MapWindow", PanelOf(c)) EXCEPT !.pmapped = @ \cup {c}]

XUnmapPanel(s, c) ==
    [Log(s, "X_UnmapWindow", PanelOf(c)) EXCEPT !.pmapped = @ \ {c}]

\* destroying a panel destroys the content inside it
XDestroyPanel(s, c) ==
    [Log(s, "X_DestroyWindow", PanelOf(c)) EXCEPT
        !.pmapped = @ \ {c}, !.alive = @ \ {c}, !.mapped = @ \ {c},
        !.focus = IF @ = c THEN Root ELSE @]

XSetInputFocus(s, w) ==
    IF w = Root THEN [Log(s, "X_SetInputFocus", Root) EXCEPT !.focus = Root]
    ELSE IF w \notin s.alive THEN XRequest(s, w, "X_SetInputFocus")
    ELSE [Log(s, "X_SetInputFocus", w) EXCEPT !.focus = w]

(***************************************************************************)
(* the override_redirect windows                                           *)
(***************************************************************************)
\* the attributes of the root window, read once at startup
rwa == [x |-> 0, y |-> 0, width |-> RootSize, height |-> RootSize]

\* the attributes a window of a client may have: in the root window, out of
\* it on either side, wider than it
Abscissas == -1 .. RootSize

Ordinates == {0, RootSize}

Geometries ==
    [x : Abscissas, y : Ordinates, width : {1, RootSize + 1}, height : {1},
     border_width : {0}, override_redirect : BOOLEAN]

\* the results of three calls of rand()
Rands == [1 .. 3 -> 0 .. MaxRand]

\* XMoveWindow on a window that is a child of the root: irwm is told of the
\* new position by a ConfigureNotify
XMoveWindow(s, w, x, y) ==
    IF w \notin s.alive THEN XRequest(s, w, "X_ConfigureWindow")
    ELSE [Log(s, "X_ConfigureWindow", w) EXCEPT
              !.geometry[w].x = x, !.geometry[w].y = y,
              !.queue = Append(@, Event("ConfigureNotify", w, FALSE))]

\* what XGetWindowAttributes may leave in wa: the attributes of the window,
\* or the previous content of wa if the window no longer exists
XGetWindowAttributes(s, w) ==
    IF w \in DOMAIN s.geometry THEN {s.geometry[w]} ELSE Geometries

overrideadd(s, win) ==
    IF s.numoverride >= MAXOVERRIDE THEN s
    ELSE [s EXCEPT !.override = Append(@, [win |-> win, nx |-> UNMOVED,
                                           ny |-> UNMOVED, ontop |-> FALSE]),
                   !.numoverride = @ + 1]

\* the first i with override[i].win == win, -1 if there is none
overrideindex(s, win) ==
    first({i \in 0 .. s.numoverride - 1 : s.override[i + 1].win = win})

overrideremoveat(s, i) ==
    IF i = -1 THEN s
    ELSE [s EXCEPT !.numoverride = @ - 1,
                   !.override = SubSeq([@ EXCEPT
                                            ![i + 1] =
                                                s.override[s.numoverride]],
                                       1, s.numoverride - 1)]

overrideremove(s, win) == overrideremoveat(s, overrideindex(s, win))

\* the divisor of the remainder in randombetween
divisor(d) == d + (IF d < 0 THEN -1 ELSE 1)

\* randombetween if the free margin were taken as positive
randombetween_positive(d, c, rc, r) ==
    IF c >= rc /\ c <= rc + d THEN c
    ELSE IF r[1] % 3 = 0 THEN rc
    ELSE IF r[2] % 3 = 0 THEN rc + d
    ELSE rc + (r[3] % (IF d < 0 THEN 1 - d ELSE d + 1))

\* the remainder of rand() by m, which may be negative
randmod(r, m) == r % (IF m < 0 THEN 0 - m ELSE m)

\* randombetween, on the results r of its calls of rand()
randombetween(d, c, rc, r) ==
    IF c >= rc /\ c <= rc + d THEN c
    ELSE IF r[1] % 3 = 0 THEN rc
    ELSE IF r[2] % 3 = 0 THEN rc + d
    ELSE rc + randmod(r[3], divisor(d))
            + (IF d < 0 THEN d ELSE 0)

\* the values randombetween may return
randomsbetween(d, c, rc) == {randombetween(d, c, rc, r) : r \in Rands}

\* overrideplace from the assignment of nx and ny on
overridemove(s, i, win, wa) ==
    IF s.override[i + 1].nx = wa.x /\ s.override[i + 1].ny = wa.y THEN s
    ELSE XMoveWindow(s, win, s.override[i + 1].nx, s.override[i + 1].ny)

\* overrideplace without the return on a position that is the cached one
overrideplaceat_nocache(s, i, win, wa) ==
    {overridemove([s EXCEPT !.override[i + 1].nx = nx,
                            !.override[i + 1].ny = ny], i, win, wa) :
        nx \in randomsbetween(rwa.width - wa.width - 2 * wa.border_width,
                              wa.x, rwa.x),
        ny \in randomsbetween(rwa.height - wa.height - 2 * wa.border_width,
                              wa.y, rwa.y)}

overrideplaceat(s, i, win, wa) ==
    IF s.override[i + 1].nx = wa.x /\ s.override[i + 1].ny = wa.y THEN {s}
    ELSE {overridemove([s EXCEPT !.override[i + 1].nx = nx,
                                 !.override[i + 1].ny = ny], i, win, wa) :
             nx \in randomsbetween(rwa.width - wa.width - 2 * wa.border_width,
                                   wa.x, rwa.x),
             ny \in randomsbetween(rwa.height - wa.height
                                       - 2 * wa.border_width,
                                   wa.y, rwa.y)}

overrideplacefound(s, i, win) ==
    IF i = -1 THEN {s}
    ELSE UNION {overrideplaceat(XRequest(s, win, "X_GetWindowAttributes"),
                                i, win, wa) :
                   wa \in XGetWindowAttributes(s, win)}

\* the states overrideplace may leave, one for each result of rand()
overrideplace(s, win) == overrideplacefound(s, overrideindex(s, win), win)

\* XRaiseWindow on the panel window of a content, which is irwm's own
XRaisePanel(s, c) == Log(s, "XRaiseWindow", PanelOf(c))

\* the entries of the table in the order of the table
tableorder(s) == s.override

\* the entries of the table in the order overrideraise raises them: the two
\* loops, on the entries that are not on top and on those that are
raiseorder(s) ==
    SelectSeq(s.override, LAMBDA o : ~ o.ontop)
        \o SelectSeq(s.override, LAMBDA o : o.ontop)

\* the requests of XRaiseWindow on the windows of the entries r, and the
\* errors of those on windows that no longer exist
raised(s, r) ==
    [s EXCEPT
        !.out = @ \o [i \in 1 .. Len(r) |-> <<"XRaiseWindow", r[i].win>>],
        !.xerrors =
            @ \o [i \in 1 .. Len(SelectSeq(r, LAMBDA o :
                                                o.win \notin DOMAIN s.geometry))
                     |-> [error_code |-> "BadWindow",
                          request_code |-> "X_ConfigureWindow"]]]

\* overrideraise if the windows were raised in the order of the table
overrideraise_tableorder(s) == raised(s, tableorder(s))

\* raiseoverride is always True
overrideraise(s) == raised(s, raiseorder(s))

\* case ClientMessage of type _NET_WM_STATE: data element j of the change c
\* of the state of window win
changestate(s, win, c, j) ==
    IF j = "None" \/ overrideindex(s, win) = -1
          \/ j # "_NET_WM_STATE_STAYS_ON_TOP"
    THEN s
    ELSE [s EXCEPT !.override[overrideindex(s, win) + 1].ontop =
                       IF c = 0 THEN FALSE ELSE IF c = 1 THEN TRUE ELSE ~ @]

(***************************************************************************)
(* the panels                                                              *)
(***************************************************************************)
Garbage == [panel |-> None, content |-> None, leader |-> None,
            withdrawn |-> FALSE]

\* panel[i] of the C array
P(s, i) == IF i >= 0 /\ i < Len(s.panel) THEN s.panel[i + 1] ELSE Garbage

\* the first i the for loop of panelfind returns at, -1 if there is none
panelfind(s, p, panelorcontent) ==
    first({i \in 0 .. s.numpanels - 1 :
              \/ "PANEL" \in panelorcontent /\ p = P(s, i).panel
              \/ "CONTENT" \in panelorcontent /\ p = P(s, i).content})

\* paneladd without the test on MAXPANELS
paneladd_nolimit(s, win, leader) ==
    LET e == panelfind(s, win, {"PANEL", "CONTENT"}) IN
    IF e # -1 THEN [st |-> s, ret |-> e]
    ELSE [st |-> [XRequest(XRequest(s, win, "X_ReparentWindow"),
                           win, "X_GetProperty")
                     EXCEPT !.panel = Append(@, [panel |-> PanelOf(win),
                                                 content |-> win,
                                                 leader |-> leader,
                                                 withdrawn |-> FALSE]),
                            !.numactive = @ + 1,
                            !.numpanels = @ + 1],
          ret |-> s.numpanels]

paneladd(s, win, leader) ==
    IF s.numpanels >= MAXPANELS THEN [st |-> s, ret |-> -1]
    ELSE LET e == panelfind(s, win, {"PANEL", "CONTENT"}) IN
         IF e # -1 THEN [st |-> s, ret |-> e]
         ELSE LET s1 == XRequest(s, win, "X_ReparentWindow")
                  s2 == XRequest(s1, win, "X_GetProperty")
                  new == [panel |-> PanelOf(win), content |-> win,
                          leader |-> leader, withdrawn |-> FALSE]
              IN [st |-> [s2 EXCEPT !.panel = Append(@, new),
                                    !.numactive = @ + 1,
                                    !.numpanels = @ + 1],
                  ret |-> s.numpanels]

\* the do-while of panelremove, stepping forward
RECURSIVE removereselect_next(_, _)
removereselect_next(s, fuel) ==
    IF s.numpanels = 0 THEN [s EXCEPT !.abnormal = "ub"]
    ELSE IF fuel = 0 THEN [s EXCEPT !.abnormal = "hang"]
    ELSE IF P(s, MODULEINCREASE(s.activepanel, s.numpanels, 1)).withdrawn
    THEN removereselect_next(
             [s EXCEPT !.activepanel = MODULEINCREASE(@, s.numpanels, 1)],
             fuel - 1)
    ELSE [s EXCEPT !.activepanel = MODULEINCREASE(@, s.numpanels, 1)]

\* the do-while of panelremove that moves activepanel to a panel that is not
\* withdrawn; it reads the array while it is being compacted
RECURSIVE removereselect(_, _)
removereselect(s, fuel) ==
    IF s.numpanels = 0 THEN [s EXCEPT !.abnormal = "ub"]
    ELSE IF fuel = 0 THEN [s EXCEPT !.abnormal = "hang"]
    ELSE LET s1 == [s EXCEPT !.activepanel =
                                 MODULEINCREASE(@, s.numpanels, -1)]
         IN IF P(s1, s1.activepanel).withdrawn
            THEN removereselect(s1, fuel - 1)
            ELSE s1

\* the count of panelremove if withdrawn panels were counted as well
removecount_withdrawn(s, e) == [s EXCEPT !.numactive = @ - 1]

\* the body of the for loop of panelremove, for a panel that is removed
removecount(s, e) ==
    IF ~ e.withdrawn THEN [s EXCEPT !.numactive = @ - 1] ELSE s

removeunmap(s, e, i, destroy) ==
    IF destroy
    THEN [XDestroyPanel(s, e.content) EXCEPT !.numpanels = @ - 1]
    ELSE IF ~ e.withdrawn
    THEN [XUnmapPanel(s, e.content) EXCEPT !.panel[i + 1].withdrawn = TRUE]
    ELSE s

removeselect(s, j) ==
    IF s.activepanel = j /\ s.numactive > 0
    THEN removereselect(s, Len(s.panel) + 1)
    ELSE s

removeshift(s, j) ==
    IF s.activepanel > j THEN [s EXCEPT !.activepanel = @ - 1] ELSE s

removed(s, e, i, j, destroy) ==
    removeselect(removeunmap(removecount(s, e), e, i, destroy), j)

removecopy(s, i, j) ==
    IF j # i THEN [s EXCEPT !.panel[j + 1] = s.panel[i + 1]] ELSE s

\* the for loop of panelremove; the array keeps its n entries during the loop
RECURSIVE removeloop(_, _, _, _, _, _)
removeloop(s, pn, c, destroy, i, j) ==
    IF i >= Len(s.panel) \/ s.abnormal # "no" THEN s
    ELSE IF i = pn \/ P(s, i).leader = c
    THEN IF destroy
         THEN removeloop(removeshift(removed(s, P(s, i), i, j, TRUE), j),
                         pn, c, destroy, i + 1, j)
         ELSE removeloop(removecopy(removed(s, P(s, i), i, j, FALSE), i, j),
                         pn, c, destroy, i + 1, j + 1)
    ELSE removeloop(removecopy(s, i, j), pn, c, destroy, i + 1, j + 1)

removeend(s) ==
    IF s.abnormal # "no" THEN s
    ELSE IF s.numactive = 0 THEN [s EXCEPT !.activepanel = -1]
    ELSE s

\* the entries from numpanels on are no longer part of the registry
removetruncate(s) == removeend([s EXCEPT !.panel = SubSeq(@, 1, s.numpanels)])

\* panelremove without the removal of the panels led by the removed one
panelremove_nocascade(s, pn, destroy) ==
    IF pn < 0 \/ pn >= s.numpanels THEN s
    ELSE removetruncate(
             removeloop(IF P(s, pn).content = s.activecontent
                        THEN [s EXCEPT !.activecontent = None] ELSE s,
                        pn, -1, destroy, 0, 0))

\* panelprint reads panel[pn]: outside the registry the entry is not one of
\* a panel, or not of the array, and its name is a pointer that may be null
\* or freed; printing it either goes on or ends the program
panelprint(s, pn) ==
    IF pn >= 0 /\ pn < s.numpanels THEN {s}
    ELSE {s, [s EXCEPT !.abnormal = "ub"]}

\* the value panelremove returns
panelremovereturn(s, pn) ==
    IF pn < 0 \/ pn >= s.numpanels THEN -1 ELSE 0

\* panelremove after its call of panelprint, which has no effect when pn is
\* in the registry, as it is in the calls of the main loop
panelremove(s, pn, destroy) ==
    IF pn < 0 \/ pn >= s.numpanels THEN s
    ELSE removetruncate(
             removeloop(IF P(s, pn).content = s.activecontent
                        THEN [s EXCEPT !.activecontent = None] ELSE s,
                        pn, P(s, pn).content, destroy, 0, 0))

panelswap(s, pn1, pn2) ==
    IF pn1 = -1 \/ pn1 > s.numpanels - 2 THEN s
    ELSE IF pn2 = -1 \/ pn2 > s.numpanels - 1 THEN s
    ELSE [s EXCEPT !.panel[pn2 + 1] = s.panel[pn1 + 1],
                   !.panel[pn1 + 1] = s.panel[pn2 + 1]]

panelresize(s, pn) ==
    IF s.activepanel = -1 THEN s
    ELSE XRequest(XRequest(s, P(s, pn).content, "X_ConfigureWindow"),
                  P(s, pn).content, "X_ConfigureWindow")

panelleave(s) ==
    IF s.activepanel = -1 THEN s
    ELSE IF ~ unmaponleave THEN s
    ELSE LET c == P(s, s.activepanel).content
             s1 == XUnmapPanel(s, c)
             s2 == XUnmapContent(s1, c)
         IN XRequest(s2, c, "X_DeleteProperty")

clientlistupdate(s) ==
    [s EXCEPT !.clientlist = [i \in 1 .. s.numpanels |-> s.panel[i].content]]

\* panelenter without the restore of a withdrawn panel
panelenter_norestore(s) ==
    IF s.activepanel = -1
    THEN clientlistupdate([s EXCEPT !.activecontent = None])
    ELSE IF s.activepanel >= s.numpanels THEN s
    ELSE LET c == P(s, s.activepanel).content
         IN IF s.activecontent = c THEN s
            ELSE LET s2 == clientlistupdate([s EXCEPT !.activecontent = c])
                     s3 == XMapContent(s2, c)
                     s4 == XMapPanel(s3, c)
                     s5 == XRequest(overrideraise(XRaisePanel(s4, c)), c,
                                    "X_ChangeProperty")
                 IN XSetInputFocus(s5, c)

panelenter(s) ==
    IF s.activepanel = -1
    THEN clientlistupdate([s EXCEPT !.activecontent = None])
    ELSE IF s.activepanel >= s.numpanels THEN s
    ELSE LET a == s.activepanel
             c == P(s, a).content
             s1 == IF P(s, a).withdrawn
                   THEN [s EXCEPT !.panel[a + 1].withdrawn = FALSE,
                                  !.numactive = @ + 1]
                   ELSE s
         IN IF s1.activecontent = c THEN s1
            ELSE LET s2 == clientlistupdate([s1 EXCEPT !.activecontent = c])
                     s3 == XMapContent(s2, c)
                     s4 == XMapPanel(s3, c)
                     s5 == XRequest(overrideraise(XRaisePanel(s4, c)), c,
                                    "X_ChangeProperty")
                 IN XSetInputFocus(s5, c)

\* the do-while of panelswitch
RECURSIVE switchstep(_, _, _)
switchstep(s, rel, fuel) ==
    IF fuel = 0 THEN [s EXCEPT !.abnormal = "hang"]
    ELSE LET a == MODULEINCREASE(s.activepanel, s.numpanels, rel)
             s1 == [s EXCEPT !.activepanel = a]
         IN IF a < 0 THEN [s1 EXCEPT !.abnormal = "ub"]
            ELSE IF P(s1, a).withdrawn THEN switchstep(s1, rel, fuel - 1)
            ELSE s1

switched(s) == IF s.abnormal # "no" THEN s ELSE panelenter(s)

\* panelswitch without the loop that skips the withdrawn panels
panelswitch_noskip(s, rel) ==
    IF s.activepanel = -1 THEN s
    ELSE switched([panelleave(s) EXCEPT
                      !.activepanel = MODULEINCREASE(@, s.numpanels, rel)])

panelswitch(s, rel) ==
    IF s.activepanel = -1 THEN s
    ELSE switched(switchstep(panelleave(s), rel, s.numpanels + 1))

(***************************************************************************)
(* closing a window                                                        *)
(***************************************************************************)
\* the server destroys a content window: at the request of its client, or
\* when irwm kills the client
XDestroyContent(s, w) ==
    LET q1 == IF w \in s.mapped
              THEN Append(s.queue, Event("UnmapNotify", w, FALSE))
              ELSE s.queue
    IN [s EXCEPT !.alive = @ \ {w}, !.mapped = @ \ {w},
                 !.focus = IF @ = w THEN PanelOf(w) ELSE @,
                 !.queue = Append(q1, Event("DestroyNotify", w, FALSE))]

closewindow(s, win) ==
    IF win \notin s.alive
    THEN XRequest(XRequest(s, win, "X_GetProperty"), win, "X_KillClient")
    ELSE IF ~ HasDeleteWindow(win)
    THEN XDestroyContent(XRequest(XRequest(s, win, "X_GetProperty"),
                                  win, "X_KillClient"), win)
    ELSE XRequest(XRequest(s, win, "X_GetProperty"), win, "X_SendEvent")

(***************************************************************************)
(* the end of irwm                                                         *)
(***************************************************************************)
\* closepanels if the withdrawn panels were passed over
RECURSIVE closepanels_live(_, _)
closepanels_live(s, i) ==
    IF i >= s.numpanels THEN s
    ELSE IF s.panel[i + 1].withdrawn THEN closepanels_live(s, i + 1)
    ELSE closepanels_live(closewindow(s, s.panel[i + 1].content), i + 1)

\* for (i = 0; i < numpanels; i++) closewindow(dsp, panel[i].content), from
\* index i on
RECURSIVE closepanels(_, _)
closepanels(s, i) ==
    IF i >= s.numpanels THEN s
    ELSE closepanels(closewindow(s, s.panel[i + 1].content), i + 1)

XCloseDisplay(s) ==
    [Log(s, "XCloseDisplay", None) EXCEPT !.display = "closed"]

execvp(s) == Log(s, "execvp", None)

\* what follows the main loop; the lirc client, which this model leaves
\* out, is killed first
closewm(s) ==
    IF s.restart THEN execvp(XCloseDisplay(closepanels(s, 0)))
    ELSE XCloseDisplay(closepanels(s, 0))

(***************************************************************************)
(* the events of the main loop                                             *)
(***************************************************************************)
\* what DestroyNotify and the synthetic UnmapNotify do after panelremove
\* afterremove if the end of the last panel ended irwm with no option -q
afterremove_noquitoption(s) ==
    IF s.abnormal # "no" THEN s
    ELSE IF s.numactive > 0 THEN panelenter(s)
    ELSE IF s.numpanels = 0 THEN [s EXCEPT !.run = FALSE]
    ELSE XSetInputFocus(clientlistupdate([s EXCEPT !.activepanel = -1]),
                        Root)

afterremove(s) ==
    IF s.abnormal # "no" THEN s
    ELSE IF s.numactive > 0 THEN panelenter(s)
    ELSE IF s.numpanels = 0 /\ quitonlastclose THEN [s EXCEPT !.run = FALSE]
    ELSE XSetInputFocus(clientlistupdate([s EXCEPT !.activepanel = -1]),
                        Root)

maprequestenter(s, pn) ==
    panelenter(panelresize([(IF s.activepanel # -1 THEN panelleave(s) ELSE s)
                               EXCEPT !.activepanel = pn],
                           pn))

maprequestadded(r) ==
    IF r.ret = -1 THEN r.st ELSE maprequestenter(r.st, r.ret)

onMapRequest(s, w) ==
    maprequestadded(paneladd(XRequest(s, w, "X_GetProperty"), w,
                             IF w \in s.alive THEN TransientFor(w)
                             ELSE None))

destroyed(s, pn) ==
    IF pn = -1 THEN s ELSE afterremove(panelremove(s, pn, TRUE))

onDestroyNotify(s, w) ==
    destroyed(overrideremove(s, w), panelfind(s, PanelOf(w), {"PANEL"}))

\* case ClientMessage of type _NET_WM_STATE and format 32
onClientMessageState(s, win, c, l1, l2) ==
    changestate(changestate(s, win, c, l1), win, c, l2)

\* case CreateNotify
onCreateNotify(s, w, override_redirect) ==
    IF override_redirect THEN overrideadd(s, w) ELSE s

\* case ConfigureNotify: the states it may leave
onConfigureNotify(s, w) ==
    IF s.overridefix THEN overrideplace(s, w) ELSE {s}

\* the first part of case MapNotify: the states it may leave
mapnotifyplace(s, w) ==
    IF panelfind(s, w, {"CONTENT"}) = -1 /\ s.overridefix
    THEN overrideplace(s, w)
    ELSE {s}

mapnotified(s, pn) ==
    IF pn = -1 \/ pn = s.activepanel THEN s
    ELSE panelenter([panelleave(s) EXCEPT !.activepanel = pn])

onMapNotify(s, w) == mapnotified(s, panelfind(s, w, {"CONTENT"}))

\* the second part of case UnmapNotify: the panel of the leader of the
\* window is entered
leaderenter(s, win, ln) ==
    IF s.abnormal # "no" \/ ~ s.run THEN s
    ELSE IF win = None THEN s
    ELSE IF ln = -1 \/ ln = s.activepanel THEN s
    ELSE panelenter([panelleave(s) EXCEPT !.activepanel = ln])

leaderswitch(s, pn) ==
    leaderenter(s, P(s, pn).leader,
                panelfind(s, P(s, pn).leader, {"CONTENT"}))

unmapped(s, pn, send_event) ==
    IF pn = -1 THEN s
    ELSE leaderswitch(IF send_event
                      THEN afterremove(panelremove(s, pn, FALSE))
                      ELSE s,
                      pn)

onUnmapNotify(s, w, send_event) ==
    unmapped(s, panelfind(s, w, {"CONTENT"}), send_event)

\* case Error, if it looked at the request of the error only
ignored_anycode(err) ==
    err.request_code \in {"X_MapWindow", "X_ChangeProperty",
                          "X_SetInputFocus", "X_ConfigureWindow",
                          "X_GetWindowAttributes", "X_GetAtomName"}

\* case Error: the errors that are ignored; the others go to the default
\* handler of Xlib, which exits
ignored(err) ==
    \/ /\ err.error_code = "BadWindow"
       /\ err.request_code \in {"X_MapWindow", "X_ChangeProperty",
                                 "X_SetInputFocus", "X_ConfigureWindow",
                                 "X_GetWindowAttributes"}
    \/ /\ err.error_code = "BadAtom"
       /\ err.request_code = "X_GetAtomName"

onError(s, err) ==
    IF ignored(err) THEN s ELSE [s EXCEPT !.abnormal = "xerror"]

(***************************************************************************)
(* the command loop                                                        *)
(***************************************************************************)
\* the commands PANELWINDOW, PROGSWINDOW and CONFIRMWINDOW when a list is
\* already shown
rewrite4(s, command) ==
    IF command = CONFIRMWINDOW /\ s.showconfirm THEN HIDEWINDOW ELSE command

rewrite3(s, command) ==
    rewrite4(s, IF command = PROGSWINDOW /\ s.showprogs THEN HIDEWINDOW
                ELSE command)

rewrite2(s, command) ==
    rewrite3(s, IF command = PANELWINDOW /\ s.showprogs /\ singlekey
                THEN HIDEWINDOW ELSE command)

\* the rewriting of the commands, if PANELWINDOW always closed the panel list
rewrite_toggle(s, command) ==
    rewrite2(s, IF command = PANELWINDOW /\ s.showpanel THEN HIDEWINDOW
                ELSE command)

rewrite(s, command) ==
    rewrite2(s, IF command = PANELWINDOW /\ s.showpanel
                THEN (IF singlekey THEN PROGSWINDOW ELSE HIDEWINDOW)
                ELSE command)

\* programs[i] of the C array; the entries from numprograms on are null
Prog(i) == IF i >= 0 /\ i < numprograms THEN programs[i + 1]
           ELSE [title |-> NULL, program |-> NULL]

forkprogram(s, path) ==
    IF path = NULL THEN s ELSE Log(s, "fork", path)

\* the number of panels before the active one that are not withdrawn
livebefore(s) ==
    Cardinality({i \in 0 .. s.activepanel - 1 : ~ P(s, i).withdrawn})

\* show/remove lists without the XGrabKeyboard
showlists_nograb(s) == s

\* show/remove lists, at the end of an iteration of the command loop
showlists(s) ==
    IF s.showpanel \/ s.showprogs \/ s.showconfirm
    THEN [s EXCEPT !.grabbed = TRUE] ELSE s

\* case RESTART, case QUIT
quitcommand(s, command) ==
    LET s1 == IF command = RESTART THEN [s EXCEPT !.restart = TRUE] ELSE s
    IN IF ~ confirmquit \/ s1.numpanels = 0 THEN [s1 EXCEPT !.run = FALSE]
       ELSE [s1 EXCEPT !.showconfirm = TRUE, !.confirmselected = 0,
                       !.grabbed = TRUE]

\* case UPWINDOW, case DOWNWINDOW
updownconfirm(s, i) ==
    IF s.showconfirm
    THEN [s EXCEPT !.confirmselected = MODULEINCREASE(@, 2, i)]
    ELSE s

updownprogs(s, i) ==
    updownconfirm(IF s.showprogs
                  THEN [s EXCEPT !.progselected =
                                     MODULEINCREASE(@, numprograms, i)]
                  ELSE s,
                  i)

updownpanel(s, i) ==
    updownprogs(IF s.showpanel THEN panelswitch(s, i) ELSE s, i)

updowncommand(s, command) ==
    updownpanel(s, IF command = UPWINDOW THEN -1 ELSE 1)

\* case ENDWINDOW: the for loop of panelswap
RECURSIVE swaptoend(_, _)
swaptoend(s, i) ==
    IF i < s.numpanels - 1 THEN swaptoend(panelswap(s, i, i + 1), i + 1)
    ELSE s

\* case ENDWINDOW if the active panel and the last one changed places
endcommand_exchange(s) ==
    IF s.showpanel /\ s.activepanel # -1 /\ s.activepanel < s.numpanels - 1
    THEN [panelswap(s, s.activepanel, s.numpanels - 1)
             EXCEPT !.activepanel = s.numpanels - 1]
    ELSE s

endcommand(s) ==
    IF s.showpanel /\ s.activepanel # -1 /\ s.activepanel < s.numpanels - 1
    THEN [swaptoend(s, s.activepanel) EXCEPT !.activepanel = s.numpanels - 1]
    ELSE s

\* an iteration of the command loop gives the state and the command that a
\* continue leaves to the next iteration; a break goes through show/remove
\* lists and leaves no command
break(s) == [st |-> showlists(s), next |-> NOCOMMAND]

continue(s, command) == [st |-> s, next |-> command]

\* okprogs if the entries with no program ran no command
okprogs_forkonly(s, c, p, t) ==
    IF c = HIDEWINDOW THEN break(s)
    ELSE IF p # NULL THEN break(forkprogram(s, p))
    ELSE break(s)

\* case HIDEWINDOW, case OKWINDOW when the program list is shown
okprogs(s, c, p, t) ==
    IF c = HIDEWINDOW THEN break(s)
    ELSE IF p # NULL THEN break(forkprogram(s, p))
    ELSE IF t = NULL THEN continue([s EXCEPT !.abnormal = "ub"], NOCOMMAND)
    ELSE IF t = "resize" THEN continue(s, RESIZE)
    ELSE IF t = "loglist" THEN continue(s, LOGLIST)
    ELSE IF t = "positionfix" THEN continue(s, POSITIONFIX)
    ELSE IF t = "restart" THEN continue(s, RESTART)
    ELSE IF t = "quit" THEN continue(s, QUIT)
    ELSE break(s)

\* the confirm dialog, if OKWINDOW did not look at confirmselected
okconfirm_anyrow(s, c) ==
    IF c = HIDEWINDOW THEN break(s) ELSE break([s EXCEPT !.run = FALSE])

\* case HIDEWINDOW, case OKWINDOW when the confirm dialog is shown
okconfirm(s, c) ==
    IF c = HIDEWINDOW THEN break(s)
    ELSE IF s.confirmselected = 0 THEN break([s EXCEPT !.run = FALSE])
    ELSE break(s)

\* case HIDEWINDOW, case OKWINDOW
okcommand(s, c) ==
    IF s.showpanel
    THEN break([s EXCEPT !.showpanel = FALSE, !.grabbed = FALSE])
    ELSE IF s.showprogs
    THEN okprogs([s EXCEPT !.showprogs = FALSE, !.grabbed = FALSE], c,
                 Prog(s.progselected).program, Prog(s.progselected).title)
    ELSE IF s.showconfirm
    THEN okconfirm([s EXCEPT !.showconfirm = FALSE, !.grabbed = FALSE], c)
    ELSE break(s)

\* case KOWINDOW if the panel list were not required
kocommand_nolist(s) ==
    IF s.activepanel # -1
    THEN closewindow(s, P(s, s.activepanel).content)
    ELSE s

\* case KOWINDOW
kocommand(s) ==
    IF s.showpanel /\ s.activepanel # -1
    THEN closewindow(s, P(s, s.activepanel).content)
    ELSE s

\* switch (command)
switch(s, c) ==
    IF s.abnormal # "no" THEN continue(s, NOCOMMAND)
    ELSE IF c \in {NEXTPANEL, PREVPANEL}
    THEN break(panelswitch(s, IF c = PREVPANEL THEN -1 ELSE 1))
    ELSE IF c \in {RESTART, QUIT} THEN break(quitcommand(s, c))
    ELSE IF c = PANELWINDOW
    THEN break([s EXCEPT !.showpanel = TRUE, !.showprogs = FALSE,
                         !.showconfirm = FALSE])
    ELSE IF c = PROGSWINDOW
    THEN break([s EXCEPT !.showprogs = TRUE, !.showpanel = FALSE,
                         !.showconfirm = FALSE])
    ELSE IF c = CONFIRMWINDOW
    THEN break([s EXCEPT !.showconfirm = TRUE, !.showpanel = FALSE,
                         !.showprogs = FALSE])
    ELSE IF c \in {UPWINDOW, DOWNWINDOW} THEN break(updowncommand(s, c))
    ELSE IF c \in {HIDEWINDOW, OKWINDOW} THEN okcommand(s, c)
    ELSE IF c = KOWINDOW THEN break(kocommand(s))
    ELSE IF c = ENDWINDOW THEN break(endcommand(s))
    ELSE IF c = RESIZE THEN break(panelresize(s, s.activepanel))
    ELSE IF c = POSITIONFIX THEN break([s EXCEPT !.overridefix = ~ @])
    ELSE break(s)

\* commands in lists: NUMWINDOW(n) in the program list
numprogs(s, command) ==
    IF s.abnormal = "no" /\ s.showprogs
    THEN [s EXCEPT !.progselected = command - NUMWINDOW(1)]
    ELSE s

\* commands in lists: NUMWINDOW(n) in the panel list
numpanel(s, command) ==
    IF s.showpanel
    THEN panelswitch(s, command - NUMWINDOW(1) - livebefore(s))
    ELSE s

numcommand(s, command) ==
    IF NUMWINDOW(1) <= command
    THEN IF s.showpanel /\ s.activepanel = -1 THEN continue(s, command)
         ELSE switch(numprogs(numpanel(s, command), command), OKWINDOW)
    ELSE switch(s, command)

iteration(s, cmd) == numcommand(s, rewrite(s, cmd))

\* while (command != NOCOMMAND)
RECURSIVE execute(_, _, _)
executenext(r, fuel) == execute(r.st, r.next, fuel)

execute(s, command, fuel) ==
    IF command = NOCOMMAND \/ s.abnormal # "no" THEN s
    ELSE IF fuel = 0 THEN [s EXCEPT !.abnormal = "hang"]
    ELSE executenext(iteration(s, command), fuel - 1)

(***************************************************************************)
(* the keys and the names of the commands                                  *)
(***************************************************************************)
Binding(c, n, k, m) ==
    [command |-> c, string |-> n, keysym |-> k, modifier |-> m]

\* commandstring[]: the commands, their names and keystrokes
commandstring ==
    << Binding(NOCOMMAND, "NOCOMMAND", "VoidSymbol", {}),
       Binding(NEXTPANEL, "NEXTPANEL", "Right", {"Mod1Mask"}),
       Binding(PREVPANEL, "PREVPANEL", "Left", {"Mod1Mask"}),
       Binding(RESTART, "RESTART", "Tab",
               {"ControlMask", "ShiftMask", "Mod1Mask"}),
       Binding(QUIT, "QUIT", "Tab", {"ControlMask", "ShiftMask"}),
       Binding(LOGLIST, "LOGLIST", "l", {"ControlMask", "ShiftMask"}),
       Binding(PANELWINDOW, "PANELWINDOW", "Tab", {"Mod1Mask"}),
       Binding(PROGSWINDOW, "PROGSWINDOW", "Tab", {"ControlMask"}),
       Binding(-1, "ENDGRAB", "VoidSymbol", {}),
       Binding(RESIZE, "RESIZE", "VoidSymbol", {}),
       Binding(POSITIONFIX, "POSITIONFIX", "VoidSymbol", {}),
       Binding(CONFIRMWINDOW, "CONFIRMWINDOW", "VoidSymbol", {}),
       Binding(UPWINDOW, "UPWINDOW", "Up", {}),
       Binding(DOWNWINDOW, "DOWNWINDOW", "Down", {}),
       Binding(HIDEWINDOW, "HIDEWINDOW", "Escape", {}),
       Binding(OKWINDOW, "OKWINDOW", "Return", {}),
       Binding(KOWINDOW, "KOWINDOW", "c", {}),
       Binding(ENDWINDOW, "ENDWINDOW", "e", {}),
       Binding(NUMWINDOW(1), "NUMWINDOW(1)", "1", {}),
       Binding(NUMWINDOW(2), "NUMWINDOW(2)", "2", {}),
       Binding(NUMWINDOW(3), "NUMWINDOW(3)", "3", {}),
       Binding(NUMWINDOW(4), "NUMWINDOW(4)", "4", {}),
       Binding(NUMWINDOW(5), "NUMWINDOW(5)", "5", {}),
       Binding(NUMWINDOW(6), "NUMWINDOW(6)", "6", {}),
       Binding(NUMWINDOW(7), "NUMWINDOW(7)", "7", {}),
       Binding(NUMWINDOW(8), "NUMWINDOW(8)", "8", {}),
       Binding(NUMWINDOW(9), "NUMWINDOW(9)", "9", {}),
       Binding(-1, NULL, "VoidSymbol", {}),
       Binding(-1, NULL, "VoidSymbol", {}) >>

\* the indices i, from 0, of for (i = 0; commandstring[i].string; i++)
named ==
    {i \in 0 .. Len(commandstring) - 1 :
        \A j \in 0 .. i : commandstring[j + 1].string # NULL}

\* the first index of the loop at which the command is found, -1 if none
commandindex(command) ==
    first({i \in named : commandstring[i + 1].command = command})

\* sprintf(..., "NUMWINDOW(%d)", command)
sprintf(command) == "NUMWINDOW(" \o ToString(command) \o ")"

\* commandtostring if the number printed were that of the entry of the list
commandtostring_entry(command) ==
    IF commandindex(command) # -1
    THEN commandstring[commandindex(command) + 1].string
    ELSE IF command >= NUMWINDOW(0)
    THEN sprintf(command - NUMWINDOW(0))
    ELSE "ERROR: no such command"

commandtostring(command) ==
    IF commandindex(command) # -1
    THEN commandstring[commandindex(command) + 1].string
    ELSE IF command >= NUMWINDOW(0) THEN sprintf(command)
    ELSE "ERROR: no such command"

\* the character of a string at position p, from 1; "" at its end
at(string, p) == IF p <= Len(string) THEN SubSeq(string, p, p) ELSE ""

isdigit(c) == c \in {"0", "1", "2", "3", "4", "5", "6", "7", "8", "9"}

isspace(c) == c \in {" ", "\t"}

\* %d of sscanf: the position after the white space, from p
RECURSIVE skipspace(_, _)
skipspace(string, p) ==
    IF isspace(at(string, p)) THEN skipspace(string, p + 1) ELSE p

\* %d of sscanf: the position after the digits, from p
RECURSIVE skipdigits(_, _)
skipdigits(string, p) ==
    IF isdigit(at(string, p)) THEN skipdigits(string, p + 1) ELSE p

\* the value of the digits of the string from p to q - 1, after value v
RECURSIVE atoi(_, _, _, _)
atoi(string, p, q, v) ==
    IF p >= q THEN v
    ELSE atoi(string, p + 1, q,
              10 * v + (CHOOSE d \in 0 .. 9 : ToString(d) = at(string, p)))

\* sscanf(string, "NUMWINDOW(%d%c", &i, &par): the number of conversions,
\* with i and par; s is the position of the sign or of the first digit and
\* d that of the first digit
sscanfat(string, s, d) ==
    IF skipdigits(string, d) = d THEN [ret |-> 0, i |-> 0, par |-> ""]
    ELSE [ret |-> IF at(string, skipdigits(string, d)) = "" THEN 1 ELSE 2,
          i |-> IF at(string, s) = "-"
                THEN 0 - atoi(string, d, skipdigits(string, d), 0)
                ELSE atoi(string, d, skipdigits(string, d), 0),
          par |-> at(string, skipdigits(string, d))]

sscanfsign(string, s) ==
    sscanfat(string, s, IF at(string, s) \in {"+", "-"} THEN s + 1 ELSE s)

sscanf(string) ==
    IF Len(string) < 10 \/ SubSeq(string, 1, 10) # "NUMWINDOW("
    THEN [ret |-> 0, i |-> 0, par |-> ""]
    ELSE sscanfsign(string, skipspace(string, 11))

stringindex(string) ==
    first({i \in named : commandstring[i + 1].string = string})

stringtocommandscanned(r) ==
    IF r.ret = 2 /\ r.i >= 0 /\ r.par = ")" THEN NUMWINDOW(r.i) ELSE -1

stringtocommand(string) ==
    IF stringindex(string) # -1
    THEN commandstring[stringindex(string) + 1].command
    ELSE stringtocommandscanned(sscanf(string))

\* XKeysymToKeycode: no key has the keysym XK_VoidSymbol
XKeysymToKeycode(keysym) == IF keysym = "VoidSymbol" THEN "0" ELSE keysym

\* shortcuts[]: the first letter of each title, then XK_VoidSymbol
shortcuts ==
    [i \in 1 .. numprograms + 1 |->
        IF i <= numprograms THEN SubSeq(programs[i].title, 1, 1)
        ELSE "VoidSymbol"]

\* the null pointer given to eventtocommand for no list: a list has at
\* least its XK_VoidSymbol
NoList == << >>

\* the second loop of eventtocommand, which ends at XK_VoidSymbol
listed(e, list) ==
    first({i \in 0 .. Len(list) - 1 :
              /\ \A j \in 0 .. i : list[j + 1] # "VoidSymbol"
              /\ e.keycode = XKeysymToKeycode(list[i + 1])})

bound(e) ==
    first({i \in named :
              /\ e.keycode = XKeysymToKeycode(commandstring[i + 1].keysym)
              /\ e.state = commandstring[i + 1].modifier})

\* eventtocommand if the shortcuts of the list were looked up before the
\* keystrokes of the commands
eventtocommand_listfirst(e, list) ==
    IF list # NoList /\ listed(e, list) # -1
    THEN NUMWINDOW(listed(e, list) + 1)
    ELSE IF bound(e) # -1 THEN commandstring[bound(e) + 1].command
    ELSE NOCOMMAND

eventtocommand(e, list) ==
    IF bound(e) # -1 THEN commandstring[bound(e) + 1].command
    ELSE IF list = NoList THEN NOCOMMAND
    ELSE IF listed(e, list) # -1 THEN NUMWINDOW(listed(e, list) + 1)
    ELSE NOCOMMAND

\* for (i = 1; strcmp(commandstring[i].string, "ENDGRAB"); i++) XGrabKey
grabkeys ==
    {[keycode |-> XKeysymToKeycode(commandstring[i + 1].keysym),
      state |-> commandstring[i + 1].modifier] :
        i \in {k \in 1 .. Len(commandstring) - 1 :
                  \A j \in 1 .. k : commandstring[j + 1].string # "ENDGRAB"}}

(***************************************************************************)
(* the actions                                                             *)
(***************************************************************************)
config == <<unmaponleave, singlekey, confirmquit, quitonlastclose, programs>>

Running == run /\ abnormal = "no"

Registered(w) == \E i \in 1 .. numpanels : panel[i].content = w

Withdrawn(w) ==
    \E i \in 1 .. numpanels : panel[i].content = w /\ panel[i].withdrawn

ClientOp == Len(queue) < MaxQueue /\ Running

\* a client creates a window and maps it: the map is redirected to irwm
ClientMap(w) ==
    /\ ClientOp
    /\ w \notin born
    /\ born' = born \cup {w}
    /\ Store([St EXCEPT !.alive = @ \cup {w},
                        !.queue = Append(@, Event("MapRequest", w, FALSE))])
    /\ last' = [kind |-> "client", arg |-> w]
    /\ UNCHANGED <<config, budget>>

\* a client withdraws its window: it unmaps it and sends a synthetic
\* UnmapNotify to the root
ClientWithdraw(w) ==
    /\ ClientOp
    /\ w \in alive
    /\ Registered(w)
    /\ LET q1 == IF w \in mapped
                 THEN Append(queue, Event("UnmapNotify", w, FALSE))
                 ELSE queue
       IN Store([St EXCEPT !.mapped = @ \ {w},
                           !.queue = Append(q1,
                                        Event("UnmapNotify", w, TRUE))])
    /\ last' = [kind |-> "client", arg |-> w]
    /\ UNCHANGED <<config, born, budget>>

\* a client maps its window again: the window is a child of its panel, on
\* which irwm does not redirect, so that the server maps it
ClientRemap(w) ==
    /\ ClientOp
    /\ w \in alive
    /\ Registered(w)
    /\ w \notin mapped
    /\ Store([St EXCEPT !.mapped = @ \cup {w},
                        !.queue = Append(@, Event("MapNotify", w, FALSE))])
    /\ last' = [kind |-> "client", arg |-> w]
    /\ UNCHANGED <<config, born, budget>>

\* a MapRequest for a window that is withdrawn, sent to the root
SendMapRequest(w) ==
    /\ ClientOp
    /\ w \in alive
    /\ Withdrawn(w)
    /\ Store([St EXCEPT !.queue = Append(@, Event("MapRequest", w, TRUE))])
    /\ last' = [kind |-> "client", arg |-> w]
    /\ UNCHANGED <<config, born, budget>>

\* a client destroys its window
ClientDestroy(w) ==
    /\ ClientOp
    /\ w \in alive
    /\ Registered(w)
    /\ Store(XDestroyContent(St, w))
    /\ last' = [kind |-> "client", arg |-> w]
    /\ UNCHANGED <<config, born, budget>>

\* XNextEvent returns the first event of the queue
NextEvent(type) ==
    /\ Running
    /\ xerrors = << >>
    /\ queue # << >>
    /\ Head(queue).type = type

Popped == [St EXCEPT !.queue = Tail(@)]

MapRequest ==
    /\ NextEvent("MapRequest")
    /\ Store(onMapRequest(Popped, Head(queue).window))
    /\ last' = [kind |-> "MapRequest", arg |-> Head(queue).window]
    /\ UNCHANGED <<config, born, budget>>

DestroyNotify ==
    /\ NextEvent("DestroyNotify")
    /\ Store(onDestroyNotify(Popped, Head(queue).window))
    /\ last' = [kind |-> "DestroyNotify", arg |-> Head(queue).window]
    /\ UNCHANGED <<config, born, budget>>

MapNotify ==
    /\ NextEvent("MapNotify")
    /\ \E t \in mapnotifyplace(Popped, Head(queue).window) :
          Store(onMapNotify(t, Head(queue).window))
    /\ last' = [kind |-> "MapNotify", arg |-> Head(queue).window]
    /\ UNCHANGED <<config, born, budget>>

UnmapNotify ==
    /\ NextEvent("UnmapNotify")
    /\ Store(onUnmapNotify(Popped, Head(queue).window,
                           Head(queue).send_event))
    /\ last' = [kind |-> IF Head(queue).send_event THEN "Withdraw"
                         ELSE "UnmapNotify",
                arg |-> Head(queue).window]
    /\ UNCHANGED <<config, born, budget>>

\* the windows that are children of the root and are not made panels
OtherWindows == {30000 + i : i \in 1 .. MaxOverride}

\* a client creates a window
CreateWindow(w, g) ==
    /\ ClientOp
    /\ w \notin born
    /\ born' = born \cup {w}
    /\ Store([St EXCEPT
                 !.alive = @ \cup {w},
                 !.geometry = [x \in DOMAIN @ \cup {w} |->
                                  IF x = w THEN g ELSE @[x]],
                 !.queue = Append(@, [type |-> "CreateNotify", window |-> w,
                                      send_event |-> FALSE,
                                      override_redirect |->
                                          g.override_redirect])])
    /\ last' = [kind |-> "client", arg |-> w]
    /\ UNCHANGED <<config, budget>>

\* a client moves its window
MoveWindow(w, x, y) ==
    /\ ClientOp
    /\ w \in DOMAIN geometry
    /\ <<x, y>> # <<geometry[w].x, geometry[w].y>>
    /\ Store([St EXCEPT
                 !.geometry[w].x = x, !.geometry[w].y = y,
                 !.queue = Append(@, Event("ConfigureNotify", w, FALSE))])
    /\ last' = [kind |-> "client", arg |-> w]
    /\ UNCHANGED <<config, born, budget>>

\* a client maps its override_redirect window: the map is not redirected
MapWindow(w) ==
    /\ ClientOp
    /\ w \in DOMAIN geometry
    /\ geometry[w].override_redirect
    /\ w \notin mapped
    /\ Store([St EXCEPT !.mapped = @ \cup {w},
                        !.queue = Append(@, Event("MapNotify", w, FALSE))])
    /\ last' = [kind |-> "client", arg |-> w]
    /\ UNCHANGED <<config, born, budget>>

\* a client destroys its window
DestroyWindow(w) ==
    /\ ClientOp
    /\ w \in DOMAIN geometry
    /\ Store([XDestroyContent(St, w) EXCEPT
                 !.geometry = [x \in DOMAIN @ \ {w} |-> @[x]]])
    /\ last' = [kind |-> "client", arg |-> w]
    /\ UNCHANGED <<config, born, budget>>

CreateNotify ==
    /\ NextEvent("CreateNotify")
    /\ Store(onCreateNotify(Popped, Head(queue).window,
                            Head(queue).override_redirect))
    /\ last' = [kind |-> "CreateNotify", arg |-> Head(queue).window]
    /\ UNCHANGED <<config, born, budget>>

ConfigureNotify ==
    /\ NextEvent("ConfigureNotify")
    /\ \E t \in onConfigureNotify(Popped, Head(queue).window) : Store(t)
    /\ last' = [kind |-> "ConfigureNotify", arg |-> Head(queue).window]
    /\ UNCHANGED <<config, born, budget>>

\* XNextEvent returns an error that the handler has put back
Error ==
    /\ Running
    /\ xerrors # << >>
    /\ Store(onError([St EXCEPT !.xerrors = Tail(@)], Head(xerrors)))
    /\ last' = [kind |-> "Error", arg |-> Head(xerrors)]
    /\ UNCHANGED <<config, born, budget>>

\* the commands of a KeyPress or of a ClientMessage of type IRWM
Commands ==
    {NEXTPANEL, PREVPANEL, RESTART, QUIT, LOGLIST, RESIZE, PANELWINDOW,
     PROGSWINDOW, CONFIRMWINDOW, UPWINDOW, DOWNWINDOW, HIDEWINDOW, OKWINDOW,
     KOWINDOW, ENDWINDOW} \cup {NUMWINDOW(n) : n \in 1 .. MaxNum}

\* the commands given while the clients are creating and destroying windows
AsyncCommands ==
    {NEXTPANEL, PANELWINDOW, KOWINDOW, NUMWINDOW(2)}

MaxLoop == 4

Unlimited == -1

Command(c) ==
    /\ Running
    /\ xerrors = << >>
    /\ Len(queue) < MaxQueue
    /\ budget # 0
    /\ Store(execute(St, c, MaxLoop))
    /\ budget' = IF budget = Unlimited THEN Unlimited ELSE budget - 1
    /\ last' = [kind |-> "Command", arg |-> c]
    /\ UNCHANGED <<config, born>>

\* case KeyPress: a key that is grabbed, or any key while the keyboard is
\* grabbed or the focus is on the root window
KeyPress(e) ==
    /\ grabbed \/ e \in grabkeys \/ focus = Root
    /\ Command(eventtocommand(e, IF showprogs THEN shortcuts ELSE NoList))

\* case ClientMessage: the messages of type IRWM and format 32, whose first
\* data element is the command
ClientMessage(emessage) ==
    /\ emessage.message_type = "IRWM"
    /\ emessage.format = 32
    /\ Command(emessage.l0)

\* the lirc client: the string c of the configuration of lirc is sent to
\* the root window as the command stringtocommand makes of it
Lirc(c) ==
    /\ c # NULL
    /\ ClientMessage([message_type |-> "IRWM", format |-> 32,
                      l0 |-> stringtocommand(c)])

\* case ClientMessage: a client asks for a change of the state of its
\* window
NetWmState(win, c, l1, l2) ==
    /\ Running
    /\ xerrors = << >>
    /\ Len(queue) < MaxQueue
    /\ Store(onClientMessageState(St, win, c, l1, l2))
    /\ last' = [kind |-> "ClientMessage", arg |-> win]
    /\ UNCHANGED <<config, born, budget>>

\* the functions of the panels, called one by one
CallRemove(pn, destroy) ==
    /\ Running
    /\ Len(queue) < MaxQueue
    /\ budget # 0
    /\ \E s \in panelprint(St, pn) :
          /\ Store(IF s.abnormal = "no" THEN panelremove(s, pn, destroy)
                   ELSE s)
          /\ last' = [kind |-> "panelremove",
                      arg |-> IF s.abnormal = "no"
                              THEN panelremovereturn(s, pn) ELSE 0]
    /\ budget' = budget - 1
    /\ UNCHANGED <<config, born>>

CallSwitch(rel) ==
    /\ Running
    /\ Len(queue) < MaxQueue
    /\ budget # 0
    /\ Store(panelswitch(St, rel))
    /\ last' = [kind |-> "panelswitch", arg |-> rel]
    /\ budget' = budget - 1
    /\ UNCHANGED <<config, born>>

CallLeave ==
    /\ Running
    /\ Len(queue) < MaxQueue
    /\ budget # 0
    /\ Store(panelleave(St))
    /\ last' = [kind |-> "panelleave", arg |-> 0]
    /\ budget' = budget - 1
    /\ UNCHANGED <<config, born>>

CallResize(pn) ==
    /\ Running
    /\ Len(queue) < MaxQueue
    /\ budget # 0
    /\ activepanel = -1 \/ (pn >= 0 /\ pn < numpanels)
    /\ Store(panelresize(St, pn))
    /\ last' = [kind |-> "panelresize", arg |-> pn]
    /\ budget' = budget - 1
    /\ UNCHANGED <<config, born>>

CallEnter ==
    /\ Running
    /\ Len(queue) < MaxQueue
    /\ budget # 0
    /\ Store(panelenter(St))
    /\ last' = [kind |-> "panelenter", arg |-> 0]
    /\ budget' = budget - 1
    /\ UNCHANGED <<config, born>>

\* randombetween called on a free margin d, a coordinate c and an origin
\* rc: the arguments and the value returned are the record of the step
CallRandom(d, c, rc) ==
    /\ Running
    /\ \E r \in Rands :
          last' = [kind |-> "randombetween",
                   arg |-> randombetween(d, c, rc, r)]
    /\ Store([St EXCEPT !.out = << <<"d", d>>, <<"c", c>>, <<"rc", rc>> >>])
    /\ UNCHANGED <<config, born, budget>>

\* the main loop is over
CloseWM ==
    /\ ~ run
    /\ abnormal = "no"
    /\ display = "open"
    /\ Store(closewm(St))
    /\ last' = [kind |-> "closewm", arg |-> 0]
    /\ UNCHANGED <<config, born, budget>>

\* no override_redirect window exists
NoOverride ==
    /\ override = << >>
    /\ numoverride = 0
    /\ overridefix = FALSE
    /\ geometry = << >>

Init ==
    /\ NoOverride
    /\ panel = << >>
    /\ numpanels = 0
    /\ numactive = 0
    /\ activepanel = -1
    /\ activecontent = None
    /\ clientlist = << >>
    /\ unmaponleave \in BOOLEAN
    /\ singlekey = FALSE
    /\ programs = DefaultPrograms
    /\ confirmquit = FALSE
    /\ quitonlastclose = FALSE
    /\ showpanel = FALSE
    /\ showprogs = FALSE
    /\ showconfirm = FALSE
    /\ progselected = 0
    /\ confirmselected = 0
    /\ run = TRUE
    /\ restart = FALSE
    /\ alive = {}
    /\ mapped = {}
    /\ pmapped = {}
    /\ focus = Root
    /\ grabbed = FALSE
    /\ queue = << >>
    /\ xerrors = << >>
    /\ out = << >>
    /\ abnormal = "no"
    /\ display = "open"
    /\ born = {}
    /\ budget = Unlimited
    /\ last = [kind |-> "start", arg |-> 0]

Next ==
    \/ \E w \in Windows : ClientMap(w)
    \/ \E w \in Windows : ClientWithdraw(w)
    \/ \E w \in Windows : ClientRemap(w)
    \/ \E w \in Windows : SendMapRequest(w)
    \/ \E w \in Windows : ClientDestroy(w)
    \/ MapRequest
    \/ DestroyNotify
    \/ MapNotify
    \/ UnmapNotify
    \/ Error
    \/ \E c \in AsyncCommands : Command(c)

Spec == Init /\ [][Next]_vars

(***************************************************************************)
(* the specifications that start from a registry with several panels: the  *)
(* state irwm is in after the windows of order were mapped in this order,  *)
(* the ones in wd were withdrawn by their clients, panel a was selected    *)
(* and all events were handled                                             *)
(***************************************************************************)
Range(f) == {f[i] : i \in DOMAIN f}

Orders ==
    {o \in UNION {[1 .. n -> ListWindows] : n \in 0 .. MaxListPanels} :
        \A i, j \in DOMAIN o : i # j => o[i] # o[j]}

Actives(o, wd) ==
    IF \A i \in DOMAIN o : o[i] \in wd THEN {-1}
    ELSE {i - 1 : i \in {k \in DOMAIN o : o[k] \notin wd}}

Quiescent(o, wd, a, b) ==
    /\ panel = [i \in DOMAIN o |->
                   [panel |-> PanelOf(o[i]), content |-> o[i],
                    leader |-> TransientFor(o[i]),
                    withdrawn |-> o[i] \in wd]]
    /\ numpanels = Len(o)
    /\ numactive = Cardinality(Range(o) \ wd)
    /\ activepanel = a
    /\ activecontent = IF a = -1 THEN None ELSE o[a + 1]
    /\ clientlist = o
    /\ showpanel = FALSE
    /\ showprogs = FALSE
    /\ showconfirm = FALSE
    /\ progselected = 0
    /\ confirmselected = 0
    /\ run = TRUE
    /\ restart = FALSE
    /\ alive = Range(o)
    /\ mapped = IF unmaponleave
                THEN (IF a = -1 THEN {} ELSE {o[a + 1]})
                ELSE Range(o) \ wd
    /\ pmapped = mapped
    /\ focus = IF a = -1 THEN Root ELSE o[a + 1]
    /\ grabbed = FALSE
    /\ queue = << >>
    /\ xerrors = << >>
    /\ out = << >>
    /\ abnormal = "no"
    /\ display = "open"
    /\ born = Range(o)
    /\ budget = b
    /\ last = [kind |-> "start", arg |-> 0]

\* the commands, on a registry whose panels are in the order of their windows
InitList ==
    /\ NoOverride
    /\ unmaponleave \in BOOLEAN
    /\ singlekey \in BOOLEAN
    /\ programs = DefaultPrograms
    /\ confirmquit \in BOOLEAN
    /\ quitonlastclose = FALSE
    /\ \E o \in Orders : \E wd \in SUBSET Range(o) : \E a \in Actives(o, wd) :
          /\ \A i \in DOMAIN o : o[i] = i
          /\ (singlekey \/ confirmquit) => Len(o) <= 1
          /\ Quiescent(o, wd, a, MaxCommands)

NextList ==
    \/ DestroyNotify
    \/ MapNotify
    \/ UnmapNotify
    \/ Error
    \/ \E c \in Commands : Command(c)

SpecList == InitList /\ [][NextList]_vars

\* one operation of a client on a registry, and the events that follow
InitEvent ==
    /\ NoOverride
    /\ unmaponleave \in BOOLEAN
    /\ singlekey = FALSE
    /\ programs = DefaultPrograms
    /\ confirmquit = FALSE
    /\ quitonlastclose \in BOOLEAN
    /\ \E o \in Orders : \E wd \in SUBSET Range(o) : \E a \in Actives(o, wd) :
          Quiescent(o, wd, a, 0)

NextEvent1 ==
    \/ /\ last.kind = "start"
       /\ \/ \E w \in ListWindows : ClientMap(w)
          \/ \E w \in ListWindows : ClientWithdraw(w)
          \/ \E w \in ListWindows : ClientRemap(w)
          \/ \E w \in ListWindows : SendMapRequest(w)
          \/ \E w \in ListWindows : ClientDestroy(w)
    \/ MapRequest
    \/ DestroyNotify
    \/ MapNotify
    \/ UnmapNotify
    \/ Error

SpecEvent == InitEvent /\ [][NextEvent1]_vars

\* the first window is created and moved anywhere, the others are created
\* in the root window and stay where they are
Created(w) ==
    IF w = 30001 THEN Geometries
    ELSE {g \in Geometries : g.x = 0 /\ g.y = 0 /\ g.width = 1}

\* a registry of MAXPANELS panels and a table of MAXOVERRIDE override_redirect
\* windows: a list is opened, a client maps a new window or asks to map a
\* withdrawn one or creates an override_redirect window, and the event is
\* handled; the windows the clients act on are the first ones and new ones
FullWindows == (1 .. 3) \cup {MAXPANELS + 1, MAXPANELS + 2}

InitFull ==
    /\ override = [i \in 1 .. MAXOVERRIDE |->
                      [win |-> 30000 + i, nx |-> UNMOVED, ny |-> UNMOVED,
                       ontop |-> FALSE]]
    /\ numoverride = MAXOVERRIDE
    /\ overridefix = FALSE
    /\ geometry = [w \in {30000 + i : i \in 1 .. MAXOVERRIDE} |->
                      [x |-> 0, y |-> 0, width |-> 1, height |-> 1,
                       border_width |-> 0, override_redirect |-> TRUE]]
    /\ unmaponleave \in BOOLEAN
    /\ singlekey = FALSE
    /\ programs = DefaultPrograms
    /\ confirmquit = FALSE
    /\ quitonlastclose = FALSE
    /\ \E wd \in SUBSET (1 .. 3) :
          \E a \in {0, 1, 2, MAXPANELS - 1} \ {w - 1 : w \in wd} :
              Quiescent([i \in 1 .. MAXPANELS |-> i], wd, a, 1)

NextFull ==
    \/ /\ last.kind \in {"start", "Command"}
       /\ \/ \E w \in FullWindows : ClientMap(w)
          \/ \E w \in FullWindows : SendMapRequest(w)
          \/ \E g \in Created(30000 + MAXOVERRIDE + 1) :
                CreateWindow(30000 + MAXOVERRIDE + 1, g)
    \/ MapRequest
    \/ CreateNotify
    \/ \E c \in {PANELWINDOW, PROGSWINDOW} : Command(c)

SpecFull == InitFull /\ [][NextFull]_vars

\* the override_redirect windows: the clients create, move, map and destroy
\* windows while irwm handles the events, with POSITIONFIX given once
InitOverride ==
    /\ override = << >>
    /\ numoverride = 0
    /\ overridefix \in BOOLEAN
    /\ geometry = << >>
    /\ unmaponleave = FALSE
    /\ singlekey = FALSE
    /\ programs = DefaultPrograms
    /\ confirmquit = FALSE
    /\ quitonlastclose = FALSE
    /\ Quiescent(<<1>>, {}, 0, 1)

NextOverride ==
    \/ \E w \in OtherWindows : \E g \in Created(w) : CreateWindow(w, g)
    \/ \E x \in Abscissas : \E y \in Ordinates : MoveWindow(30001, x, y)
    \/ \E w \in OtherWindows : MapWindow(w)
    \/ \E w \in OtherWindows : DestroyWindow(w)
    \/ CreateNotify
    \/ ConfigureNotify
    \/ DestroyNotify
    \/ MapNotify
    \/ UnmapNotify
    \/ Error
    \/ Command(POSITIONFIX)

SpecOverride == InitOverride /\ [][NextOverride]_vars

\* the ways out of the main loop: the commands of the lists and of the end
\* of irwm, while the clients destroy their windows, with every option
EndCommands ==
    {RESTART, QUIT, PANELWINDOW, PROGSWINDOW, CONFIRMWINDOW, UPWINDOW,
     DOWNWINDOW, HIDEWINDOW, OKWINDOW, KOWINDOW, NUMWINDOW(1), NUMWINDOW(2)}

InitEnd ==
    /\ NoOverride
    /\ unmaponleave \in BOOLEAN
    /\ singlekey = FALSE
    /\ programs = DefaultPrograms
    /\ confirmquit \in BOOLEAN
    /\ quitonlastclose \in BOOLEAN
    /\ \E o \in Orders : \E wd \in SUBSET Range(o) : \E a \in Actives(o, wd) :
          /\ \A i \in DOMAIN o : o[i] = i
          /\ Len(o) <= MaxWin
          /\ Quiescent(o, wd, a, MaxCommands)

NextEnd ==
    \/ \E w \in Windows : ClientDestroy(w)
    \/ DestroyNotify
    \/ MapNotify
    \/ UnmapNotify
    \/ Error
    \/ \E c \in EndCommands : Command(c)
    \/ CloseWM

SpecEnd == InitEnd /\ [][NextEnd]_vars

\* the keys and the messages, with the program lists of three configuration
\* files: none, one with every command of irwm, one with programs that share
\* their first letter with each other or with a command
EngineTable ==
    << [title |-> "xterm", program |-> "/usr/bin/xterm"],
       [title |-> "resize", program |-> NULL],
       [title |-> "loglist", program |-> NULL],
       [title |-> "positionfix", program |-> NULL],
       [title |-> "restart", program |-> NULL],
       [title |-> "quit", program |-> NULL] >>

ShortcutTable ==
    << [title |-> "xcalc", program |-> "xcalc"],
       [title |-> "xterm", program |-> "/usr/bin/xterm"],
       [title |-> "clock", program |-> "xclock"],
       [title |-> "editor", program |-> "xedit"],
       [title |-> "quit", program |-> NULL] >>

ProgramTables == {DefaultPrograms, EngineTable, ShortcutTable}

Keycodes ==
    {"x", "q", "c", "e", "r", "1", "2", "Tab", "Up", "Down", "Escape",
     "Return"}

KeyEvents ==
    [keycode : Keycodes, state : {{}, {"ControlMask"}}]

\* the command numbers of the manual page
Messages == (0 .. 12) \cup (20 .. 25) \cup {NUMWINDOW(n) : n \in 1 .. 2}

InitKeys ==
    /\ NoOverride
    /\ unmaponleave = FALSE
    /\ singlekey = FALSE
    /\ programs \in ProgramTables
    /\ confirmquit \in BOOLEAN
    /\ quitonlastclose = FALSE
    /\ \E o \in {<< >>, <<1>>, <<1, 2>>} : \E a \in Actives(o, {}) :
          Quiescent(o, {}, a, MaxKeys)

NextKeys ==
    \/ \E e \in KeyEvents : KeyPress(e)
    \/ \E n \in Messages :
          ClientMessage([message_type |-> "IRWM", format |-> 32, l0 |-> n])

SpecKeys == InitKeys /\ [][NextKeys]_vars

\* the lirc client sends the names that irwm prints for the commands, and
\* other strings
Ids == (-2 .. 26) \cup (NUMWINDOW(0) - 1 .. NUMWINDOW(MaxName))

OtherNames ==
    {"", "RETIRE", "nextpanel", "NEXTPANEL ", "NUMWINDOW", "NUMWINDOW(2",
     "NUMWINDOW()", "NUMWINDOW(-2)", "NUMWINDOW(x)", "NUMWINDOW(2]",
     "NUMWINDOW(2)x", "NUMWINDOW( 2)", "NUMWINDOW(+2)"}

InitNames ==
    /\ NoOverride
    /\ unmaponleave = FALSE
    /\ singlekey = FALSE
    /\ programs = DefaultPrograms
    /\ confirmquit \in BOOLEAN
    /\ quitonlastclose = FALSE
    /\ \E o \in {<< >>, <<1>>, <<1, 2>>} : \E a \in Actives(o, {}) :
          Quiescent(o, {}, a, MaxCommands)

NextNames ==
    \/ \E id \in Ids : Lirc(commandtostring(id))
    \/ \E c \in OtherNames : Lirc(c)

SpecNames == InitNames /\ [][NextNames]_vars

\* the functions of the panels are called on registries of up to two
\* panels, some withdrawn, and on the empty registry, with indices in and
\* out of the registry
Indices == -2 .. 3

InitPanel ==
    /\ NoOverride
    /\ unmaponleave \in BOOLEAN
    /\ singlekey = FALSE
    /\ programs = DefaultPrograms
    /\ confirmquit = FALSE
    /\ quitonlastclose = FALSE
    /\ \E o \in {<< >>, <<1>>, <<1, 2>>, <<1, 3>>} :
          \E wd \in SUBSET Range(o) : \E a \in Actives(o, wd) :
              Quiescent(o, wd, a, MaxCommands)

NextPanel ==
    \/ \E pn \in Indices : \E destroy \in BOOLEAN : CallRemove(pn, destroy)
    \/ \E rel \in {-1, 1} : CallSwitch(rel)
    \/ CallLeave
    \/ \E pn \in Indices : CallResize(pn)
    \/ CallEnter

SpecPanel == InitPanel /\ [][NextPanel]_vars

\* commands that switch panels are given while the notifications of the
\* previous ones are pending; the main loop reads the next event whenever
\* there is one
InitLive ==
    /\ NoOverride
    /\ unmaponleave \in BOOLEAN
    /\ singlekey = FALSE
    /\ programs = DefaultPrograms
    /\ confirmquit = FALSE
    /\ quitonlastclose = FALSE
    /\ \E o \in Orders : \E a \in Actives(o, {}) :
          /\ \A i \in DOMAIN o : o[i] = i
          /\ Quiescent(o, {}, a, MaxCommands)

NextLive ==
    \/ Command(NEXTPANEL)
    \/ Command(PREVPANEL)
    \/ MapNotify
    \/ UnmapNotify

\* XNextEvent: the main loop reads the first event of the queue, which is
\* then the event of the last step; no two events that follow each other in
\* the queue are the same, so that reading an event changes last
ReadEvent ==
    /\ Running
    /\ xerrors = << >>
    /\ queue # << >>
    /\ last' = [kind |-> IF Head(queue).type = "MapNotify" THEN "MapNotify"
                         ELSE IF Head(queue).send_event THEN "Withdraw"
                         ELSE "UnmapNotify",
                arg |-> Head(queue).window]

SpecLive == InitLive /\ [][NextLive]_vars /\ WF_last(ReadEvent)

\* randombetween is called on margins, coordinates and origins of either
\* sign
Margins == -MaxMargin .. MaxMargin

Coordinates == -MaxMargin - 1 .. MaxMargin + 1

Origins == -1 .. 1

InitRandom ==
    /\ NoOverride
    /\ unmaponleave = FALSE
    /\ singlekey = FALSE
    /\ programs = DefaultPrograms
    /\ confirmquit = FALSE
    /\ quitonlastclose = FALSE
    /\ Quiescent(<< >>, {}, -1, 0)

NextRandom ==
    \E d \in Margins : \E c \in Coordinates : \E rc \in Origins :
        CallRandom(d, c, rc)

SpecRandom == InitRandom /\ [][NextRandom]_vars

\* the panels are switched while override_redirect windows, in every order
\* in the table, are put on top and destroyed
Tables ==
    {t \in UNION {[1 .. n -> OtherWindows] : n \in 0 .. MaxOverride} :
        \A i, j \in DOMAIN t : t[i] = t[j] => i = j}

Atoms == {"None", "_NET_WM_STATE_STAYS_ON_TOP", "_NET_WM_STATE_ABOVE"}

InitRaise ==
    /\ \E t \in Tables :
          /\ override = [i \in DOMAIN t |->
                            [win |-> t[i], nx |-> UNMOVED, ny |-> UNMOVED,
                             ontop |-> FALSE]]
          /\ numoverride = Len(t)
          /\ geometry = [w \in Range(t) |->
                            [x |-> 0, y |-> 0, width |-> 1, height |-> 1,
                             border_width |-> 0, override_redirect |-> TRUE]]
    /\ overridefix = FALSE
    /\ unmaponleave \in BOOLEAN
    /\ singlekey = FALSE
    /\ programs = DefaultPrograms
    /\ confirmquit = FALSE
    /\ quitonlastclose = FALSE
    /\ \E a \in 0 .. 1 : Quiescent(<<1, 3>>, {}, a, Unlimited)

NextRaise ==
    \/ \E w \in OtherWindows : \E c \in 0 .. 2 : \E l1, l2 \in Atoms :
          NetWmState(w, c, l1, l2)
    \/ \E w \in OtherWindows : DestroyWindow(w)
    \/ \E w \in {1, 3} : ClientDestroy(w)
    \/ Command(NEXTPANEL)
    \/ Command(PREVPANEL)
    \/ DestroyNotify
    \/ UnmapNotify
    \/ MapNotify
    \/ Error

SpecRaise == InitRaise /\ [][NextRaise]_vars

\* the errors of the X protocol and the requests of irwm they may answer
ErrorCodes ==
    {"BadRequest", "BadValue", "BadWindow", "BadAtom", "BadMatch",
     "BadDrawable", "BadAccess", "BadAlloc"}

RequestCodes ==
    {"X_MapWindow", "X_ChangeProperty", "X_SetInputFocus",
     "X_ConfigureWindow", "X_GetWindowAttributes", "X_GetAtomName",
     "X_UnmapWindow", "X_GetProperty", "X_DeleteProperty", "X_SendEvent",
     "X_KillClient", "X_ReparentWindow", "X_DestroyWindow", "X_GrabKey"}

\* an error of the server is the next event, on a registry whose panels are
\* in the order of their windows
InitError ==
    /\ NoOverride
    /\ unmaponleave \in BOOLEAN
    /\ singlekey = FALSE
    /\ programs = DefaultPrograms
    /\ confirmquit = FALSE
    /\ quitonlastclose = FALSE
    /\ \E o \in Orders : \E wd \in SUBSET Range(o) : \E a \in Actives(o, wd) :
          \E e \in ErrorCodes : \E r \in RequestCodes :
              /\ \A i \in DOMAIN o : o[i] = i
              /\ panel = [i \in DOMAIN o |->
                             [panel |-> PanelOf(o[i]), content |-> o[i],
                              leader |-> TransientFor(o[i]),
                              withdrawn |-> o[i] \in wd]]
              /\ numpanels = Len(o)
              /\ numactive = Cardinality(Range(o) \ wd)
              /\ activepanel = a
              /\ activecontent = IF a = -1 THEN None ELSE o[a + 1]
              /\ clientlist = o
              /\ alive = Range(o)
              /\ mapped = IF unmaponleave
                          THEN (IF a = -1 THEN {} ELSE {o[a + 1]})
                          ELSE Range(o) \ wd
              /\ pmapped = mapped
              /\ focus = IF a = -1 THEN Root ELSE o[a + 1]
              /\ born = Range(o)
              /\ xerrors = << [error_code |-> e, request_code |-> r] >>
    /\ showpanel = FALSE
    /\ showprogs = FALSE
    /\ showconfirm = FALSE
    /\ progselected = 0
    /\ confirmselected = 0
    /\ run = TRUE
    /\ restart = FALSE
    /\ grabbed = FALSE
    /\ queue = << >>
    /\ out = << >>
    /\ abnormal = "no"
    /\ display = "open"
    /\ budget = 0
    /\ last = [kind |-> "start", arg |-> 0]

SpecError == InitError /\ [][Error]_vars

TypeOK ==
    /\ numpanels = Len(panel)
    /\ activepanel \in -1 .. numpanels - 1

(***************************************************************************)
(* the claims                                                              *)
(***************************************************************************)
Live == {i \in 1 .. numpanels : ~ panel[i].withdrawn}

\* C1: at most one of the panel list, the program list and the confirm
\* dialog is active, after any sequence of commands and events
C1_OneOverlay ==
    /\ ~ (showpanel /\ showprogs)
    /\ ~ (showpanel /\ showconfirm)
    /\ ~ (showprogs /\ showconfirm)

\* C2: no request of irwm on a content window that its client has destroyed
\* takes irwm to the default error handler
C2_StaleNeverFatal == abnormal # "xerror"

\* C3: activepanel is -1 exactly when no panel is live, and is otherwise the
\* index of a panel that is not withdrawn
C3_ActiveIsLive ==
    Running =>
        /\ (activepanel = -1) <=> (Live = {})
        /\ activepanel # -1 => activepanel + 1 \in Live

\* a panel was withdrawn or destroyed and another one is active
C3_Witness ==
    /\ last.kind \in {"Withdraw", "DestroyNotify"}
    /\ Running
    /\ activepanel # -1
    /\ \E i \in 1 .. numpanels : panel[i].withdrawn

(***************************************************************************)
(* C4: cycling                                                             *)
(***************************************************************************)
\* panelswitch(+1) applied n times, with no event handled in between
RECURSIVE switchtimes(_, _)
switchtimes(s, n) ==
    IF n = 0 THEN s ELSE panelswitch(switchtimes(s, n - 1), 1)

\* C4: from every registry with k >= 1 live panels, k applications of
\* panelswitch(+1) come back to the starting panel, every panel on the way is
\* a live one, and the panels on the way are all the k live panels
C4_SwitchCycle ==
    (Running /\ activepanel # -1) =>
        /\ switchtimes(St, Cardinality(Live)).activepanel = activepanel
        /\ \A n \in 0 .. Cardinality(Live) :
              /\ switchtimes(St, n).abnormal = "no"
              /\ switchtimes(St, n).activepanel + 1 \in Live
        /\ {switchtimes(St, n).activepanel + 1 : n \in 1 .. Cardinality(Live)}
               = Live

\* NEXTPANEL has wrapped around the end of a registry that has a withdrawn
\* panel after its last live one
C4_Witness ==
    /\ last = [kind |-> "Command", arg |-> NEXTPANEL]
    /\ Running
    /\ Cardinality(Live) >= 2
    /\ \A i \in Live : activepanel + 1 <= i
    /\ \E w \in 1 .. numpanels : panel[w].withdrawn /\ \A i \in Live : i < w

(***************************************************************************)
(* C5, C6: panelremove                                                     *)
(***************************************************************************)
\* the indices of the panels that panelremove(pn) removes
removedby(pn) ==
    {i \in 0 .. numpanels - 1 :
        i = pn \/ panel[i + 1].leader = panel[pn + 1].content}

\* the live panels that panelremove(pn) leaves
remaining(pn) ==
    {i \in 0 .. numpanels - 1 :
        i \notin removedby(pn) /\ ~ panel[i + 1].withdrawn}

\* the first panel of remaining(pn) met from i in the direction rel
RECURSIVE nearest(_, _, _, _)
nearest(pn, i, rel, fuel) ==
    IF fuel = 0 THEN -1
    ELSE IF MODULEINCREASE(i, numpanels, rel) \in remaining(pn)
    THEN MODULEINCREASE(i, numpanels, rel)
    ELSE nearest(pn, MODULEINCREASE(i, numpanels, rel), rel, fuel - 1)

\* the content of that panel, None if no live panel remains
expected(pn, rel) ==
    IF remaining(pn) = {} THEN None
    ELSE panel[nearest(pn, pn, rel, numpanels) + 1].content

\* the content of the active panel of a state, None if there is none
activeof(s) ==
    IF s.activepanel = -1 THEN None ELSE P(s, s.activepanel).content

kept(pn) ==
    SelectSeq(panel, LAMBDA e : /\ e.content # panel[pn + 1].content
                                /\ e.leader # panel[pn + 1].content)

cascaded(r, pn) ==
    r.abnormal = "no" =>
        /\ r.numpanels = numpanels - Cardinality(removedby(pn))
        /\ r.panel = kept(pn)
        /\ \A i \in 1 .. Len(r.panel) :
              /\ r.panel[i].content # panel[pn + 1].content
              /\ r.panel[i].leader # panel[pn + 1].content

\* C6: panelremove(pn, True) removes panel pn and the panels whose leader is
\* the content of panel pn, and no other: numpanels decreases by their number
\* and the other entries are all kept
C6_Cascade ==
    Running =>
        \A pn \in 0 .. numpanels - 1 :
            cascaded(panelremove(St, pn, TRUE), pn)

\* window 1 was destroyed: the panel of its dialog 2 was destroyed with it,
\* and the panel of window 3 is still in the registry
C6_Witness ==
    /\ last = [kind |-> "DestroyNotify", arg |-> 1]
    /\ Running
    /\ 2 \in born
    /\ 2 \notin alive
    /\ \A i \in 1 .. numpanels : panel[i].content \notin {1, 2}
    /\ \E i \in 1 .. numpanels : panel[i].content = 3

(***************************************************************************)
(* C7, C10: MapRequest and MapNotify                                       *)
(***************************************************************************)
\* the next state has one panel for w, which is not withdrawn and is the
\* active one, and the content and the panel window of w are mapped
Restored(w) ==
    /\ Cardinality({i \in 1 .. numpanels' : panel'[i].content = w}) = 1
    /\ \A i \in 1 .. numpanels' :
          panel'[i].content = w =>
              /\ ~ panel'[i].withdrawn
              /\ activepanel' = i - 1
    /\ w \in mapped'
    /\ w \in pmapped'

\* C7: the MapRequest or the MapNotify of a window whose panel is withdrawn
\* leaves the panel not withdrawn, active and alone for its content, and the
\* content and the panel window both mapped
C7_Restore ==
    [][((MapRequest \/ MapNotify)
            /\ Withdrawn(Head(queue).window)
            /\ Head(queue).window \in alive)
         => Restored(Head(queue).window)]_vars

\* the next state has the panel of w active, and w has the input focus
Entered(w) ==
    /\ activepanel' # -1
    /\ panel'[activepanel' + 1].content = w
    /\ focus' = w

\* in raise mode the content and the panel window of the active panel stay
\* mapped
LeftMapped ==
    (~ unmaponleave /\ activepanel # -1) =>
        /\ panel[activepanel + 1].content \in mapped =>
               panel[activepanel + 1].content \in mapped'
        /\ panel[activepanel + 1].content \in pmapped =>
               panel[activepanel + 1].content \in pmapped'

\* C10: after the MapRequest of a window is handled, with room in the
\* registry, the panel of the window is the active one and the window has the
\* input focus; in raise mode the panel that was active stays mapped
C10_MapRequestEnters ==
    [][(MapRequest /\ Head(queue).window \in alive /\ numpanels < MAXPANELS)
         => (Entered(Head(queue).window) /\ LeftMapped)]_vars

(***************************************************************************)
(* C8, C9: NUMWINDOW                                                       *)
(***************************************************************************)
\* the index in the registry of the i-th panel of the panel list
nthlive(i) ==
    CHOOSE x \in Live : Cardinality({y \in Live : y < x}) = i - 1

\* program i - 1 of the program list has been run by the step: it was
\* forked, or the step has done what its title asks for
ran(i) ==
    IF Prog(i - 1).program # NULL
    THEN \E k \in 1 .. Len(out') : out'[k] = <<"fork", Prog(i - 1).program>>
    ELSE Prog(i - 1).title = "quit" => (~ run' \/ showconfirm')

\* C8: NUMWINDOW(i) makes the i-th panel of the panel list the active one, or
\* runs program i - 1 of the program list, and closes the list
C8_NumSelects ==
    [][\A i \in 1 .. MaxNum :
          Command(NUMWINDOW(i)) =>
              /\ (showpanel /\ i <= Cardinality(Live)) =>
                     /\ abnormal' = "no"
                     /\ activepanel' + 1 = nthlive(i)
                     /\ ~ showpanel'
              /\ (showprogs /\ i <= numprograms) =>
                     /\ abnormal' = "no"
                     /\ ran(i)
                     /\ ~ showprogs']_vars

\* C9: NUMWINDOW(i) with i greater than the number of entries of the list
\* that is shown changes nothing and runs nothing
C9_NumBeyondIsNoop ==
    [][\A i \in 1 .. MaxNum :
          (/\ Command(NUMWINDOW(i))
           /\ \/ showpanel /\ i > Cardinality(Live)
              \/ showprogs /\ i > numprograms)
          => /\ abnormal' = "no"
             /\ UNCHANGED <<activepanel, progselected, confirmselected,
                            showpanel, showprogs, showconfirm, run>>
             /\ \A k \in 1 .. Len(out') : out'[k][1] # "fork"]_vars

(***************************************************************************)
(* C11: the confirm dialog                                                 *)
(***************************************************************************)
\* no list is shown
Hidden == ~ showpanel /\ ~ showprogs /\ ~ showconfirm

\* the confirm dialog is the list that is shown
ConfirmQuit == showconfirm /\ ~ showpanel /\ ~ showprogs

ConfirmQuitNext == showconfirm' /\ ~ showpanel' /\ ~ showprogs'

Swallowed(err) ==
    \/ /\ err.error_code = "BadWindow"
       /\ \/ err.request_code = "X_MapWindow"
          \/ err.request_code = "X_ChangeProperty"
          \/ err.request_code = "X_SetInputFocus"
          \/ err.request_code = "X_ConfigureWindow"
          \/ err.request_code = "X_GetWindowAttributes"
    \/ err.error_code = "BadAtom" /\ err.request_code = "X_GetAtomName"

\* C12: an error changes nothing and leaves irwm running if it is a
\* BadWindow of MapWindow, ChangeProperty, SetInputFocus, ConfigureWindow or
\* GetWindowAttributes or a BadAtom of GetAtomName; every other error goes to
\* the default handler, which ends the process
C12_ErrorsSwallowed ==
    [][Error =>
          IF Swallowed(Head(xerrors))
          THEN /\ run' /\ abnormal' = "no"
               /\ UNCHANGED <<panel, numpanels, numactive, activepanel,
                              activecontent, clientlist, showpanel,
                              showprogs, showconfirm, progselected,
                              confirmselected, restart, alive, mapped,
                              pmapped, focus, grabbed, queue>>
          ELSE abnormal' = "xerror"]_vars

\* a BadAtom of GetAtomName was handled and irwm is running
C12_Witness ==
    /\ last.kind = "Error"
    /\ last.arg = [error_code |-> "BadAtom", request_code |-> "X_GetAtomName"]
    /\ Running
    /\ numpanels >= 2

(***************************************************************************)
(* C13, C14: paneladd and overrideadd                                      *)
(***************************************************************************)
\* C13: with MAXPANELS panels in the registry, the MapRequest of a window
\* that has no panel leaves the registry, numactive, the active panel and the
\* lists as they were, and irwm running; with MAXOVERRIDE windows in the
\* table, the CreateNotify of an override_redirect window leaves the table as
\* it was
C13_FullRejects ==
    [][/\ (/\ MapRequest
           /\ numpanels >= MAXPANELS
           /\ ~ Registered(Head(queue).window)) =>
              /\ UNCHANGED <<panel, numpanels, numactive, activepanel,
                             activecontent, showpanel, showprogs, showconfirm,
                             progselected, confirmselected>>
              /\ run' /\ abnormal' = "no"
       /\ (/\ CreateNotify
           /\ Head(queue).override_redirect
           /\ numoverride >= MAXOVERRIDE) =>
              /\ UNCHANGED <<override, numoverride, overridefix, panel,
                             numpanels, numactive, activepanel,
                             activecontent, showpanel, showprogs,
                             showconfirm>>
              /\ run' /\ abnormal' = "no"]_vars

\* the MapRequest of a new window was handled with the registry full and the
\* panel list shown
C13_Witness ==
    /\ last = [kind |-> "MapRequest", arg |-> MAXPANELS + 1]
    /\ Running
    /\ numpanels = MAXPANELS
    /\ showpanel
    /\ \E i \in 1 .. 3 : panel[i].withdrawn

\* paneladd(w) has returned the index of the panel of content w and has left
\* the registry as it is
existing(r, w) ==
    /\ r.ret # -1
    /\ panel[r.ret + 1].content = w
    /\ r.st.panel = panel
    /\ r.st.numpanels = numpanels
    /\ r.st.numactive = numactive

\* C14: paneladd of a window that is the content or the panel window of a
\* panel returns the index of that panel and adds no panel, whatever the
\* number of panels; no two panels have the same content or the same panel
\* window
C14_AddExisting ==
    Running =>
        /\ \A w \in Windows \cup ListWindows \cup FullWindows :
              Registered(w) =>
                  /\ existing(paneladd(St, w, None), w)
                  /\ existing(paneladd(St, PanelOf(w), None), w)
        /\ Cardinality({panel[i].content : i \in 1 .. numpanels}) = numpanels
        /\ Cardinality({panel[i].panel : i \in 1 .. numpanels}) = numpanels

(***************************************************************************)
(* C15: overrideplace                                                      *)
(***************************************************************************)
\* the override_redirect windows that exist and are in the table
Tracked ==
    {w \in DOMAIN geometry : \E i \in 1 .. numoverride : override[i].win = w}

\* the second call has left the table as the first did and has only read
\* the attributes of the window
placedagain(t, u, w) ==
    /\ u.override = t.override
    /\ u.out = Append(t.out, <<"X_GetWindowAttributes", w>>)
    /\ u.geometry = t.geometry

\* C15: two calls of overrideplace in succession on a window of the table:
\* whatever the attributes of the window and the results of rand(), the
\* second call leaves nx and ny as the first did and does not move the window
C15_PlaceTwice ==
    Running =>
        \A w \in Tracked :
            \A t \in overrideplace(St, w) :
                \A u \in overrideplace(t, w) : placedagain(t, u, w)

\* with POSITIONFIX on, a window wider than the root was moved to its cached
\* position, and the ConfigureNotify of the move was handled without moving
\* it again
C15_Witness ==
    /\ last.kind = "ConfigureNotify"
    /\ Running
    /\ overridefix
    /\ out = << <<"X_GetWindowAttributes", last.arg>> >>
    /\ last.arg \in Tracked
    /\ geometry[last.arg].width > rwa.width
    /\ \E i \in 1 .. numoverride :
          /\ override[i].win = last.arg
          /\ override[i].nx = geometry[last.arg].x
          /\ override[i].ny = geometry[last.arg].y
          /\ override[i].ny # rwa.height

(***************************************************************************)
(* C16: the keyboard grab                                                  *)
(***************************************************************************)
\* C16: when a command has been processed, irwm holds the keyboard grab if
\* and only if the panel list, the program list or the confirm dialog is
\* shown
C16_GrabIffList ==
    abnormal = "no" => (grabbed <=> (showpanel \/ showprogs \/ showconfirm))

\* the program list was shown, its second row selected, and the list was
\* closed by HIDEWINDOW: the grab is released
C16_Witness ==
    /\ last = [kind |-> "Command", arg |-> HIDEWINDOW]
    /\ Running
    /\ progselected = 1
    /\ Hidden
    /\ ~ grabbed

(***************************************************************************)
(* C17: the commands of a list that is shown                               *)
(***************************************************************************)
\* the panel list is the list that is shown
PanelList == showpanel /\ ~ showprogs /\ ~ showconfirm

\* the program list is the list that is shown
ProgramList == showprogs /\ ~ showpanel /\ ~ showconfirm

contents(p) == [i \in 1 .. Len(p) |-> p[i].content]

\* the step adds a panel, destroys one or makes another content the active
\* one
Changes ==
    \/ Len(panel') # Len(panel)
    \/ activeof([panel |-> panel', activepanel |-> activepanel'])
           # activeof([panel |-> panel, activepanel |-> activepanel])

\* C18: after an event or a command that adds, destroys or switches a panel,
\* the list of windows published on the root is the list of the contents of
\* the registry, in the order of the registry
C18_ClientList ==
    [][(Changes /\ abnormal' = "no" /\ run') =>
           clientlist' = contents(panel')]_vars

(***************************************************************************)
(* C19: the end of the main loop                                           *)
(***************************************************************************)
\* the title of the entry of the program list that command c runs, NULL if
\* it runs none
selects(c) ==
    IF showpanel \/ ~ showprogs THEN NULL
    ELSE IF c = OKWINDOW /\ Prog(progselected).program = NULL
    THEN Prog(progselected).title
    ELSE IF c >= NUMWINDOW(1) /\ Prog(c - NUMWINDOW(1)).program = NULL
    THEN Prog(c - NUMWINDOW(1)).title
    ELSE NULL

\* command c is QUIT or RESTART, or runs the entry of the program list of
\* that title, and the confirm dialog is not to be shown
QuitGiven(c) ==
    /\ c \in {QUIT, RESTART} \/ selects(c) \in {"quit", "restart"}
    /\ ~ confirmquit \/ numpanels = 0

\* command c is OKWINDOW, as given or as the commands of the lists are
\* rewritten, on the confirm dialog with "yes" selected
YesGiven(c) ==
    /\ c = OKWINDOW \/ c >= NUMWINDOW(1)
    /\ showconfirm
    /\ confirmselected = 0

\* C19: run becomes false only on QUIT or RESTART without option -c or
\* without panels, on OKWINDOW on the "yes" of the confirm dialog, or with
\* option -q on the DestroyNotify that empties the registry; without option
\* -q that DestroyNotify leaves irwm running with no active panel
C19_RunEnds ==
    [][/\ (run /\ ~ run') =>
              \/ \E c \in Commands :
                     Command(c) /\ (QuitGiven(c) \/ YesGiven(c))
              \/ DestroyNotify /\ quitonlastclose /\ numpanels' = 0
       /\ (DestroyNotify /\ ~ quitonlastclose /\ numpanels > 0
              /\ numpanels' = 0 /\ abnormal' = "no") =>
              run' /\ activepanel' = -1]_vars

\* without option -q the last window was destroyed and irwm is running
C19_Witness ==
    /\ last.kind = "DestroyNotify"
    /\ ~ quitonlastclose
    /\ born # {}
    /\ numpanels = 0
    /\ activepanel = -1
    /\ Running

(***************************************************************************)
(* C20: the windows are closed when irwm ends                              *)
(***************************************************************************)
\* the positions in the requests of the last step of a close request for
\* window w: the delete-window message or the kill of the client
closes(w) ==
    {k \in 1 .. Len(out) : out[k] \in {<<"X_SendEvent", w>>,
                                        <<"X_KillClient", w>>}}

\* the positions in the requests of the last step of request req
requests(req) == {k \in 1 .. Len(out) : out[k][1] = req}

\* C20: when the main loop is over, every content in the registry, withdrawn
\* or not, is sent a close request before the display is closed and before
\* irwm is executed again
C20_ClosedAtEnd ==
    last.kind = "closewm" =>
        /\ display = "closed"
        /\ requests("XCloseDisplay") # {}
        /\ restart <=> requests("execvp") # {}
        /\ \A i \in 1 .. numpanels :
              /\ closes(panel[i].content) # {}
              /\ \A k \in closes(panel[i].content) :
                    \A e \in requests("XCloseDisplay") \cup requests("execvp") :
                        k < e

\* irwm ended with two panels, one of them withdrawn
C20_Witness ==
    /\ last.kind = "closewm"
    /\ numpanels = 2
    /\ \E i \in 1 .. numpanels : panel[i].withdrawn
    /\ \E i \in 1 .. numpanels : ~ panel[i].withdrawn

(***************************************************************************)
(* C21: irwm is executed again only after RESTART                          *)
(***************************************************************************)
\* C21: when the main loop ends on a QUIT command or, with option -q, on
\* the DestroyNotify of the last window, with no confirm dialog left open,
\* the restart flag that the code after the loop tests is false, whatever
\* RESTART was declined before
C21_QuitNoRestart ==
    [][(run /\ ~ run' /\ ~ showconfirm
          /\ (Command(QUIT) \/ DestroyNotify)) => ~ restart']_vars

(***************************************************************************)
(* C22: OKWINDOW and HIDEWINDOW in the program list                        *)
(***************************************************************************)
\* the programs forked in the step
forked == SelectSeq(out', LAMBDA r : r[1] = "fork")

\* the command of irwm that the program list runs for title t
engine(t) ==
    CASE t = "resize" -> RESIZE
      [] t = "loglist" -> LOGLIST
      [] t = "positionfix" -> POSITIONFIX
      [] t = "restart" -> RESTART
      [] t = "quit" -> QUIT

\* the step changes nothing but what closes the list
OnlyCloses ==
    /\ ~ showprogs' /\ ~ showpanel' /\ ~ showconfirm'
    /\ ~ grabbed'
    /\ UNCHANGED <<panel, numpanels, numactive, activepanel, activecontent,
                   run, restart, overridefix, progselected, mapped, pmapped,
                   focus, queue, abnormal>>

\* C22: when only the program list is shown, with the cursor on an entry,
\* HIDEWINDOW closes the list, forks nothing and runs no command; OKWINDOW
\* on an entry with a program closes the list, forks that program and only
\* it, and runs no command; OKWINDOW on an entry with no program and title
\* resize, loglist, positionfix, restart or quit closes the list, forks
\* nothing and runs the command of that title in the same step
C22_OkPrograms ==
    [][(ProgramList /\ progselected \in 0 .. numprograms - 1) =>
          /\ Command(HIDEWINDOW) => OnlyCloses /\ forked = << >>
          /\ (Command(OKWINDOW) /\ Prog(progselected).program # NULL) =>
                /\ OnlyCloses
                /\ forked = << <<"fork", Prog(progselected).program>> >>
          /\ (Command(OKWINDOW) /\ Prog(progselected).program = NULL
                /\ Prog(progselected).title \in
                       {"resize", "loglist", "positionfix", "restart",
                        "quit"}) =>
                /\ forked = << >>
                /\ Store(execute(
                       [St EXCEPT !.showprogs = FALSE, !.grabbed = FALSE],
                       engine(Prog(progselected).title), MaxLoop))]_vars

\* OKWINDOW on the entry "quit" of the program list has ended the main loop
C22_Witness ==
    /\ last = [kind |-> "Command", arg |-> OKWINDOW]
    /\ programs = EngineTable
    /\ progselected = 5
    /\ ~ confirmquit
    /\ ~ showprogs
    /\ ~ run

(***************************************************************************)
(* C23: the first letter of a title is its shortcut                        *)
(***************************************************************************)
\* the index, from 0, of the first entry of the program list whose title
\* begins by the letter of the key
firstwith(keycode) ==
    first({i \in 0 .. numprograms - 1 :
              SubSeq(Prog(i).title, 1, 1) = keycode})

\* C23: when only the program list is shown, the key of the first letter of
\* a title, pressed with no modifier, puts the cursor on the first entry
\* whose title begins by that letter, closes the list and runs that entry:
\* its program, if it has one, is forked
C23_FirstLetter ==
    [][\A e \in KeyEvents :
          (ProgramList /\ e.state = {} /\ firstwith(e.keycode) # -1
             /\ KeyPress(e)) =>
              /\ progselected' = firstwith(e.keycode)
              /\ ~ showprogs'
              /\ Prog(firstwith(e.keycode)).program # NULL =>
                    forked = << <<"fork", Prog(firstwith(e.keycode)).program>> >>
      ]_vars

(***************************************************************************)
(* C24: the command numbers of the manual page                             *)
(***************************************************************************)
\* the name that the manual page gives to command number n
manual(n) ==
    CASE n = 0 -> "NOCOMMAND"
      [] n = 1 -> "NEXTPANEL"
      [] n = 2 -> "PREVPANEL"
      [] n = 3 -> "RESTART"
      [] n = 4 -> "RETIRE"
      [] n = 5 -> "QUIT"
      [] n = 6 -> "LOGLIST"
      [] n = 7 -> "POSITIONFIX"
      [] n = 8 -> "RESIZE"
      [] n = 9 -> "PASSKEYS"
      [] n = 10 -> "PANELWINDOW"
      [] n = 11 -> "PROGSWINDOW"
      [] n = 12 -> "CONFIRMWINDOW"
      [] n = 20 -> "UPWINDOW"
      [] n = 21 -> "DOWNWINDOW"
      [] n = 22 -> "HIDEWINDOW"
      [] n = 23 -> "OKWINDOW"
      [] n = 24 -> "KOWINDOW"
      [] n = 25 -> "ENDWINDOW"
      [] n >= 100 -> sprintf(n - 100)

\* C24: a ClientMessage of type IRWM and format 32 whose first data element
\* is a command number of the manual page does what the command that the
\* manual page names for that number does
C24_ManualNumbers ==
    [][\A n \in Messages :
          ClientMessage([message_type |-> "IRWM", format |-> 32, l0 |-> n])
              => Store(execute(St, stringtocommand(manual(n)), MaxLoop))]_vars

(***************************************************************************)
(* C25: the entries of the confirm dialog by their number                  *)
(***************************************************************************)
\* C25: when only the confirm dialog is shown, NUMWINDOW(2) does what
\* OKWINDOW does with the cursor on "no", the second entry: the dialog is
\* closed and irwm keeps running
C25_NumberNo ==
    [][(ConfirmQuit /\ Command(NUMWINDOW(2))) => (Hidden' /\ run')]_vars

(***************************************************************************)
(* C26: the cursors of the lists                                           *)
(***************************************************************************)
\* C26: in every state the cursor of the program list is on one of the
\* numprograms entries and the cursor of the confirm dialog is on one of
\* its two entries
C26_CursorInList ==
    /\ progselected \in 0 .. numprograms - 1
    /\ confirmselected \in {0, 1}

(***************************************************************************)
(* C27: a panel and its content are mapped and unmapped together           *)
(***************************************************************************)
\* request k of the step is request req on window w
requested(k, req, w) == out'[k][1] = req /\ out'[k][2] = w

\* C27: in every step, a request to map the panel window of a content comes
\* after a request to map the content, and a request to unmap the panel
\* window of a content, the withdrawal of a panel and of the panels of its
\* group included, comes before a request to unmap the content
C27_Together ==
    [][\A k \in 1 .. Len(out') : \A c \in ListWindows :
          /\ requested(k, "X_MapWindow", PanelOf(c)) =>
                \E j \in 1 .. k - 1 : requested(j, "X_MapWindow", c)
          /\ requested(k, "X_UnmapWindow", PanelOf(c)) =>
                \E j \in k + 1 .. Len(out') :
                    requested(j, "X_UnmapWindow", c)]_vars

(***************************************************************************)
(* C28: the override_redirect windows are raised over the panel            *)
(***************************************************************************)
\* the position of the last request of the step to raise window w, 0 if
\* there is none
lastraise(w) ==
    IF \E k \in 1 .. Len(out') : requested(k, "XRaiseWindow", w)
    THEN CHOOSE k \in 1 .. Len(out') :
             /\ requested(k, "XRaiseWindow", w)
             /\ \A j \in k + 1 .. Len(out') :
                   ~ requested(j, "XRaiseWindow", w)
    ELSE 0

\* the step activates a panel whose content was not the active one
Activates ==
    /\ Running'
    /\ activepanel' # -1
    /\ activecontent' # activecontent
    /\ activecontent' = panel'[activepanel' + 1].content

\* C28: in every step that activates a panel whose content was not the
\* active content, the panel window is raised, every window of the table is
\* raised after it, and every window that is on top is raised after every
\* window that is not, whatever the order of the table
C28_RaiseOnTop ==
    [][Activates =>
          /\ lastraise(PanelOf(activecontent')) > 0
          /\ \A i \in 1 .. numoverride' :
                lastraise(override'[i].win) >
                    lastraise(PanelOf(activecontent'))
          /\ \A i, j \in 1 .. numoverride' :
                (override'[i].ontop /\ ~ override'[j].ontop) =>
                    lastraise(override'[i].win) >
                        lastraise(override'[j].win)]_vars

\* a panel was activated while the first window of the table was on top
\* and the second was not
C28_Witness ==
    /\ last = [kind |-> "Command", arg |-> NEXTPANEL]
    /\ numoverride = 2
    /\ override[1].ontop
    /\ ~ override[2].ontop
    /\ out # << >>
    /\ Running

(***************************************************************************)
(* C29: the names and the numbers of the commands                          *)
(***************************************************************************)
\* the names of the commands: the strings of the table and the names of
\* the selections by number
vocabulary ==
    {commandstring[i + 1].string : i \in named}
        \cup {"NUMWINDOW(" \o ToString(n) \o ")" : n \in 0 .. MaxName}

\* C29: the command that the lirc client sends for the name that
\* commandtostring gives for a command, when it is not the error string, is
\* that command; for a string that is not the name of a command it sends -1
C29_Inverse ==
    [][/\ \A id \in Ids :
             (/\ commandtostring(id) # "ERROR: no such command"
              /\ Lirc(commandtostring(id)))
                 => last'.arg = id
       /\ \A c \in OtherNames :
             (c \notin vocabulary /\ Lirc(c)) => last'.arg = -1]_vars

(***************************************************************************)
(* C30: the functions of the panels outside the registry                   *)
(***************************************************************************)
\* the registry and the active panel are as they were
SameRegistry ==
    /\ panel' = panel
    /\ numpanels' = numpanels
    /\ numactive' = numactive
    /\ activepanel' = activepanel

\* nothing changes but the record of the last step and the count of steps
NoChange ==
    /\ SameRegistry
    /\ activecontent' = activecontent
    /\ out' = << >>
    /\ mapped' = mapped
    /\ pmapped' = pmapped
    /\ focus' = focus
    /\ queue' = queue
    /\ abnormal' = abnormal

\* C30: panelremove of an index outside 0 .. numpanels - 1 returns -1 and
\* leaves the registry, numactive, activepanel and activecontent as they
\* were; when activepanel is -1, panelswitch, panelleave and panelresize
\* change nothing and request nothing, and panelenter only sets the active
\* content to None
C30_OutOfRegistry ==
    [][/\ \A pn \in Indices : \A destroy \in BOOLEAN :
             ((pn < 0 \/ pn >= numpanels) /\ CallRemove(pn, destroy)) =>
                 (last'.arg = -1 /\ NoChange)
       /\ (activepanel = -1 /\ \E rel \in {-1, 1} : CallSwitch(rel))
             => NoChange
       /\ (activepanel = -1 /\ CallLeave) => NoChange
       /\ (activepanel = -1 /\ \E pn \in Indices : CallResize(pn))
             => NoChange
       /\ (activepanel = -1 /\ CallEnter) =>
             /\ SameRegistry
             /\ activecontent' = None
             /\ out' = << >>
             /\ mapped' = mapped
             /\ pmapped' = pmapped
             /\ focus' = focus
             /\ queue' = queue
             /\ abnormal' = abnormal]_vars

(***************************************************************************)
(* C31: the active panel is moved to the end of the registry               *)
(***************************************************************************)
\* the registry with the entry of the active panel moved to the end
movedtoend ==
    [i \in 1 .. numpanels |->
        IF i < activepanel + 1 THEN panel[i]
        ELSE IF i < numpanels THEN panel[i + 1]
        ELSE panel[activepanel + 1]]

\* C31: ENDWINDOW given when only the panel list is shown and a panel is
\* active moves the entry of the active panel to the end of the registry,
\* keeps the order of the other entries, the active content, numpanels and
\* numactive, and makes activepanel numpanels - 1; when the active panel is
\* the last one, the registry, the active panel and the lists are unchanged
C31_MoveToEnd ==
    [][(PanelList /\ activepanel # -1 /\ Command(ENDWINDOW)) =>
          /\ panel' = movedtoend
          /\ numpanels' = numpanels
          /\ numactive' = numactive
          /\ activecontent' = activecontent
          /\ activepanel' = numpanels - 1
          /\ PanelList'
          /\ (activepanel = numpanels - 1) =>
                (panel' = panel /\ activepanel' = activepanel
                 /\ mapped' = mapped /\ pmapped' = pmapped
                 /\ focus' = focus /\ queue' = queue)]_vars

\* the first of three or more panels was moved to the end
C31_Witness ==
    /\ last = [kind |-> "Command", arg |-> ENDWINDOW]
    /\ showpanel
    /\ numpanels >= 3
    /\ activepanel = numpanels - 1
    /\ panel[numpanels].content = 1
    /\ panel[1].content = 2
    /\ panel[2].content = 3

(***************************************************************************)
(* C32: KOWINDOW and ENDWINDOW outside and inside the panel list           *)
(***************************************************************************)
\* the step sends a close request to window w: the delete-window message or
\* the kill of the client
closing(w) ==
    \E k \in 1 .. Len(out') :
        requested(k, "X_SendEvent", w) \/ requested(k, "X_KillClient", w)

\* the step sends no close request
NoClose ==
    \A k \in 1 .. Len(out') : out'[k][1] \notin {"X_SendEvent", "X_KillClient"}

\* C32: KOWINDOW and ENDWINDOW given when the panel list is not shown (no
\* list, the program list or the confirm dialog) send no close request and
\* leave the registry, the active panel and the lists as they were;
\* KOWINDOW given when only the panel list is shown sends a close request to
\* the content of the active panel and leaves the registry as it was
C32_CloseInList ==
    [][/\ \A c \in {KOWINDOW, ENDWINDOW} :
             ((Hidden \/ ProgramList \/ ConfirmQuit) /\ Command(c)) =>
                 /\ NoClose
                 /\ panel' = panel
                 /\ numpanels' = numpanels
                 /\ numactive' = numactive
                 /\ activepanel' = activepanel
                 /\ activecontent' = activecontent
                 /\ alive' = alive
                 /\ showpanel' = showpanel
                 /\ showprogs' = showprogs
                 /\ showconfirm' = showconfirm
       /\ (PanelList /\ activepanel # -1 /\ Command(KOWINDOW)) =>
             /\ closing(panel[activepanel + 1].content)
             /\ \A w \in ListWindows \ {panel[activepanel + 1].content} :
                   ~ closing(w)
             /\ panel' = panel
             /\ numpanels' = numpanels
             /\ numactive' = numactive
             /\ activepanel' = activepanel]_vars

\* the client of the third of four panels was killed from the panel list
\* and its entry is still in the registry
C32_Witness ==
    /\ last = [kind |-> "Command", arg |-> KOWINDOW]
    /\ showpanel
    /\ numpanels = 4
    /\ activepanel = 2
    /\ \E k \in 1 .. Len(out) :
          out[k][1] = "X_KillClient" /\ out[k][2] = panel[3].content

(***************************************************************************)
(* C33: the coordinate chosen for an override_redirect window              *)
(***************************************************************************)
\* the arguments of the call of randombetween of the last step
margin == out[1][2]

coordinate == out[2][2]

origin == out[3][2]

\* the interval between the origin and the origin plus the margin
between ==
    IF margin >= 0 THEN origin .. origin + margin
    ELSE origin + margin .. origin

\* C33: for every margin d, of either sign or zero, coordinate c and origin
\* rc, randombetween returns c if rc <= c <= rc + d; otherwise it returns a
\* value between rc and rc + d, ends included, every one of which is a
\* value it may return; the divisor of its remainder is never zero
C33_Between ==
    last.kind = "randombetween" =>
        /\ divisor(margin) # 0
        /\ (coordinate >= origin /\ coordinate <= origin + margin)
              => last.arg = coordinate
        /\ ~ (coordinate >= origin /\ coordinate <= origin + margin)
              => /\ last.arg \in between
                 /\ randomsbetween(margin, coordinate, origin) = between

\* a coordinate out of a negative margin was replaced by a value inside
\* the interval
C33_Witness ==
    /\ last.kind = "randombetween"
    /\ margin = -2
    /\ origin = 1
    /\ coordinate = 2
    /\ last.arg = 0

(***************************************************************************)
(* C34: the count of the panels that are not withdrawn                     *)
(***************************************************************************)
\* C34: after every step of irwm, numactive is the number of the entries of
\* the registry that are not withdrawn
C34_NumActive ==
    abnormal = "no" =>
        numactive = Cardinality({i \in 1 .. numpanels : ~ panel[i].withdrawn})


\* a DestroyNotify was handled and left panels withdrawn and panels not
\* withdrawn in the registry
C34_Witness ==
    /\ last.kind = "DestroyNotify"
    /\ abnormal = "no"
    /\ numactive >= 1
    /\ numactive < numpanels

(***************************************************************************)
(* C35: the loop of panelremove that selects the active panel              *)
(***************************************************************************)
\* C35: the handling of a DestroyNotify or of an UnmapNotify, which calls
\* panelremove, never leaves the loop that selects the active panel
\* running for ever
C35_RemoveEnds ==
    last.kind \in {"DestroyNotify", "Withdraw", "UnmapNotify"} =>
        abnormal # "hang"

(***************************************************************************)
(* C36: the command loop                                                   *)
(***************************************************************************)
\* C36: the loop that executes a command, and the commands that follow from
\* it, ends for every command in every state
C36_CommandEnds == last.kind = "Command" => abnormal # "hang"

(***************************************************************************)
(* C37: the notifications of the switches are all read                     *)
(***************************************************************************)
\* no event is pending, or irwm has ended
Quiet == queue = << >> \/ ~ Running

\* C37: with option -u, after the commands that are given, the events that
\* the map and unmap requests of irwm produce are eventually all read and
\* no event is pending from then on
C37_Quiesces == unmaponleave => <>[]Quiet

(***************************************************************************)
(* C38: a switch and its own notifications                                 *)
(***************************************************************************)
\* C38: after NEXTPANEL or PREVPANEL has made a panel active, and until
\* another command is given, no notification that is read makes another
\* panel active
C38_SwitchStays ==
    [][(budget = MaxCommands - 1 /\ budget' = budget)
          => activepanel' = activepanel]_vars

(***************************************************************************)
(* C39: the active content is the content of the active panel              *)
(***************************************************************************)
\* C39: after every event that irwm handles, activecontent is the content
\* of the active panel, and None if no panel is active
C39_ActiveContent ==
    (/\ last.kind \in {"MapRequest", "DestroyNotify", "MapNotify",
                       "UnmapNotify", "Withdraw"}
     /\ abnormal = "no")
        => activecontent = IF activepanel = -1 THEN None
                           ELSE panel[activepanel + 1].content

(***************************************************************************)
(* C40: the removal of a panel does not restore another                    *)
(***************************************************************************)
\* the panels that are withdrawn and are neither the panel of window w nor
\* one of its dependents
otherwithdrawn(w) ==
    {i \in 1 .. numpanels : /\ panel[i].withdrawn
                            /\ panel[i].content # w
                            /\ panel[i].leader # w}

\* the panel of content c is in the registry, withdrawn and not mapped
withdrawnafter(c) ==
    /\ \E k \in 1 .. numpanels' : /\ panel'[k].content = c
                                  /\ panel'[k].withdrawn
    /\ c \notin pmapped'

\* C40: when a DestroyNotify or a synthetic UnmapNotify has been handled,
\* every panel that was withdrawn, other than the removed one and its
\* dependents, is still withdrawn and its panel window is still unmapped
C40_StillWithdrawn ==
    [][(/\ last'.kind \in {"DestroyNotify", "Withdraw"}
        /\ abnormal' = "no")
          => \A i \in otherwithdrawn(last'.arg) :
                withdrawnafter(panel[i].content)]_vars

====
